---- MODULE Spec2Model ----
(***************************************************************************)
(* TranslationFlow (ElevanaAV/transflow2): the TTL cache, the project      *)
(* store operations of projectService.ts, the Firestore security rules and *)
(* the batched writes of batchOperations.ts, as state machines.            *)
(*                                                                         *)
(* One specification per subsystem; the variables of the other subsystems  *)
(* stay at their initial value:                                            *)
(*   SpecCache   createCache (src/lib/cache.ts)                            *)
(*   Spec        the project operations of projectService.ts, one caller   *)
(*   SpecClients the same with several clients and the project edit page   *)
(*   SpecRules   requests on projects/{id} decided by firestore.rules       *)
(*   SpecBatch   executeBatch and deleteProject on up to MaxVideos videos  *)
(*   SpecDelete  deleteProject of one client against createVideo of another *)
(*   SpecHook    the useProjects hook and its projectsCache                 *)
(*   SpecLoad    the loading effects of the detail and overview pages       *)
(*   SpecUsers   the profiles of userService.ts, one call at a time         *)
(*   SpecAdmin   two users on the admin initialization page                 *)
(*   SpecPure    handleError and the progress percentage on chosen inputs   *)
(*   SpecDetail  the handlers of the project detail page                    *)
(*   SpecColl    one call of deleteCollection on a collection               *)
(*   SpecAsync   one useAsyncOperation hook with overlapping executes       *)
(*   SpecAssign  phase assignments and role changes on an existing project  *)
(*   SpecSignup  signup and the auth-state listener for the same new user   *)
(*   SpecTeam    an admin on the team page                                  *)
(***************************************************************************)
EXTENDS Integers, Sequences, FiniteSets, TLC

VARIABLES
    \* ---- cache.ts ----
    ttlMs,        \* the ttlMs argument of createCache
    now,          \* Date.now()
    cache,        \* the Map<string, CacheEntry>: key -> entry or NoEntry
    cacheRet,     \* the call just made on the cache and what it returned
    lastSet,      \* history: per key, the most recent set() not yet removed or cleared
    \* ---- projectService.ts ----
    projects,     \* the projects collection: document id -> document or NoDoc
    call,         \* per client, the service call that is between two awaits
    ret,          \* what the service call that completed last returned or threw (NoCall
                  \* once the next call has read the store)
    calls,        \* number of service calls started so far (bounds the runs of several clients)
    page,         \* per client, the project state of the open edit page (NoDoc: none loaded)
    videos,       \* per project id, the ids of its videos subcollection, oldest first
    lastVideoId,  \* the document id addDoc gave to the newest video
    commitLog,    \* history: the commits the running or last executeBatch attempted
    \* ---- firestore.rules ----
    access,       \* the request the rules decided last, and the decision
    \* ---- hooks/useProjects.ts ----
    projectsCache,  \* the entries of the module's projectsCache: user id -> entry or NoEntry
    hook,           \* the state of the useProjects hook, its requests in flight, its last fetch
    \* ---- app/projects/[id]/page.tsx, app/projects/overview/page.tsx ----
    load,           \* per page, the run of its loading effect and the state it sets
    detail,         \* per client, the state of the open project detail page
    \* ---- userService.ts, context/AuthContext.tsx, app/admin/init/page.tsx,
    \*      app/team/page.tsx ----
    users,          \* the users collection: uid -> document or NoDoc
    adminPage,      \* per client, the state of the open admin initialization page
    authCtx,        \* per client, the state of its AuthProvider: the signed-in user, the
                    \* userProfile it holds, its running signup and auth-state listener
    team,           \* per client, the state of the open team page
    \* ---- batchOperations.ts: deleteCollection ----
    coll,           \* the collection being deleted and the running deleteCollection
    \* ---- functions without state ----
    pure,           \* the function applied, its argument and its result
    \* ---- hooks/useAsyncOperation.ts ----
    asyncOp         \* the state of one useAsyncOperation hook and its executes in flight

cacheVars == <<ttlMs, now, cache, cacheRet, lastSet>>
projVars == <<projects, call, ret, calls, page>>
batchVars == <<videos, lastVideoId, commitLog>>
rulesVars == <<access>>
hookVars == <<projectsCache, hook>>
\* the variables of the store, the services and the rules
serviceVars == <<projVars, batchVars, rulesVars>>
\* the variables of the hooks and pages
loadVars == <<load>>
detailVars == <<detail>>
\* the AuthProvider and the team page of each client
sessionVars == <<authCtx, team>>
userVars == <<users, adminPage, sessionVars>>
collVars == <<coll>>
pureVars == <<pure>>
asyncVars == <<asyncOp>>
appVars == <<hookVars, loadVars, detailVars, userVars, collVars, pureVars, asyncVars>>
\* what the actions of one part leave alone
exceptHook == <<cacheVars, serviceVars, loadVars, detailVars, userVars, collVars, pureVars,
                asyncVars>>
exceptLoad == <<cacheVars, serviceVars, hookVars, detailVars, userVars, collVars, pureVars,
                asyncVars>>
exceptDetail == <<hookVars, loadVars, userVars, collVars, pureVars, asyncVars>>
exceptUsers == <<projects, page, cacheVars, batchVars, rulesVars, hookVars, loadVars,
                 detailVars, collVars, pureVars, asyncVars>>
exceptColl == <<cacheVars, serviceVars, hookVars, loadVars, detailVars, userVars, pureVars,
                asyncVars>>
exceptPure == <<cacheVars, serviceVars, hookVars, loadVars, detailVars, userVars, collVars,
                asyncVars>>
exceptAsync == <<cacheVars, serviceVars, hookVars, loadVars, detailVars, userVars, collVars,
                 pureVars>>
vars == <<ttlMs, now, cache, cacheRet, lastSet, projects, call, ret, calls, page,
         videos, lastVideoId, commitLog, access, projectsCache, hook, load, detail,
         users, adminPage, authCtx, team, coll, pure, asyncOp>>

-----------------------------------------------------------------------------
(* Bounds of the model *)

MaxTime == 4        \* the clock runs from 0 to MaxTime
MaxTtl == 2         \* createCache is called with a ttl in 0..MaxTtl
MaxCalls == 4       \* service calls started in a run of several clients
MaxVideos == 1001   \* videos of the project whose videos are deleted in batches
MaxRaceVideos == 2  \* videos of the project deleted while videos are added
MaxTicks == 4       \* steps of the clock while useProjects is mounted
MaxFetches == 3     \* calls of fetchProjects while useProjects is mounted
MaxExecutes == 4    \* calls of execute while useAsyncOperation is mounted

-----------------------------------------------------------------------------
(* cache.ts *)

Keys == {"k1", "k2"}
Values == {"v1", "v2"}
NoEntry == [absent |-> TRUE]
Null == "null"

CacheEntry(data, timestamp) == [data |-> data, timestamp |-> timestamp]

\* the mutant: an entry whose age equals the ttl counts as expired
IsExpiredAtBoundary(entry) == now - entry.timestamp >= ttlMs

\* const isExpired = Date.now() - entry.timestamp > ttlMs;
IsExpired(entry) == now - entry.timestamp > ttlMs

CacheInit ==
    /\ ttlMs \in 0..MaxTtl
    /\ now = 0
    /\ cache = [k \in Keys |-> NoEntry]
    /\ cacheRet = [op |-> "create"]
    /\ lastSet = [k \in Keys |-> NoEntry]

\* Date.now() advances between two calls
Tick ==
    /\ now < MaxTime
    /\ now' = now + 1
    /\ cacheRet' = [op |-> "tick"]
    /\ UNCHANGED <<ttlMs, cache, lastSet, projVars, batchVars, rulesVars, appVars>>

CacheGet(key) ==
    LET entry == cache[key] IN
    /\ IF entry = NoEntry
       THEN /\ cacheRet' = [op |-> "get", key |-> key, result |-> Null]
            /\ cache' = cache
       ELSE IF IsExpired(entry)
       THEN /\ cache' = [cache EXCEPT ![key] = NoEntry]
            /\ cacheRet' = [op |-> "get", key |-> key, result |-> Null]
       ELSE /\ cacheRet' = [op |-> "get", key |-> key, result |-> entry.data]
            /\ cache' = cache
    /\ UNCHANGED <<ttlMs, now, lastSet, projVars, batchVars, rulesVars, appVars>>

CacheSet(key, data) ==
    /\ cache' = [cache EXCEPT ![key] = CacheEntry(data, now)]
    /\ lastSet' = [lastSet EXCEPT ![key] = CacheEntry(data, now)]
    /\ cacheRet' = [op |-> "set", key |-> key]
    /\ UNCHANGED <<ttlMs, now, projVars, batchVars, rulesVars, appVars>>

CacheRemove(key) ==
    /\ cache' = [cache EXCEPT ![key] = NoEntry]
    /\ lastSet' = [lastSet EXCEPT ![key] = NoEntry]
    /\ cacheRet' = [op |-> "remove", key |-> key]
    /\ UNCHANGED <<ttlMs, now, projVars, batchVars, rulesVars, appVars>>

CacheClear ==
    /\ cache' = [k \in Keys |-> NoEntry]
    /\ lastSet' = [k \in Keys |-> NoEntry]
    /\ cacheRet' = [op |-> "clear"]
    /\ UNCHANGED <<ttlMs, now, projVars, batchVars, rulesVars, appVars>>

CacheHas(key) ==
    LET entry == cache[key] IN
    /\ IF entry = NoEntry
       THEN /\ cacheRet' = [op |-> "has", key |-> key, result |-> FALSE]
            /\ cache' = cache
       ELSE IF IsExpired(entry)
       THEN /\ cache' = [cache EXCEPT ![key] = NoEntry]
            /\ cacheRet' = [op |-> "has", key |-> key, result |-> FALSE]
       ELSE /\ cacheRet' = [op |-> "has", key |-> key, result |-> TRUE]
            /\ cache' = cache
    /\ UNCHANGED <<ttlMs, now, lastSet, projVars, batchVars, rulesVars, appVars>>

-----------------------------------------------------------------------------
(* types.ts, constants.ts *)

SUBTITLE_TRANSLATION == "subtitle_translation"
TRANSLATION_PROOFREADING == "translation_proofreading"
AUDIO_PRODUCTION == "audio_production"
AUDIO_REVIEW == "audio_review"
ProjectPhase == {SUBTITLE_TRANSLATION, TRANSLATION_PROOFREADING, AUDIO_PRODUCTION, AUDIO_REVIEW}

NOT_STARTED == "not_started"
IN_PROGRESS == "in_progress"
COMPLETED == "completed"
PhaseStatus == {NOT_STARTED, IN_PROGRESS, COMPLETED}

\* lib/constants.ts: the ordered list of the four phase identifiers
PHASE_SEQUENCE ==
    <<SUBTITLE_TRANSLATION, TRANSLATION_PROOFREADING, AUDIO_PRODUCTION, AUDIO_REVIEW>>

-----------------------------------------------------------------------------
(* The document store: documents are maps from field names to values; an   *)
(* update is a map from field paths to values, a path <<f>> replacing the  *)
(* field f and a path <<f, k>> ("f.k") setting key k inside the map f.     *)
(* Timestamps (createdAt, updatedAt) are left out.                         *)

ProjectIds == {"p1"}
Users == {"u1", "u2"}
Names == {"n1", "n2"}
Clients == {"c1", "c2"}

\* the budget of service calls of a run of several clients
Budget == calls < MaxCalls /\ calls' = calls + 1

\* the user signed in at a client
UserOf(c) == IF c = "c1" THEN "u1" ELSE "u2"

NoDoc == [absent |-> TRUE]
EmptyMap == << >>

Put(map, key, value) ==
    [k \in DOMAIN map \cup {key} |-> IF k = key THEN value ELSE map[k]]

Delete(map, key) == [k \in DOMAIN map \ {key} |-> map[k]]

\* {...a, ...b}
Spread(a, b) == [k \in DOMAIN a \cup DOMAIN b |-> IF k \in DOMAIN b THEN b[k] ELSE a[k]]

\* updateDoc(docRef, data) on an existing document
ApplyUpdate(doc, data) ==
    LET top == {p[1] : p \in DOMAIN data}
    IN  [f \in DOMAIN doc \cup top |->
            IF <<f>> \in DOMAIN data THEN data[<<f>>]
            ELSE LET sub == {p \in DOMAIN data : Len(p) = 2 /\ p[1] = f}
                     old == IF f \in DOMAIN doc THEN doc[f] ELSE EmptyMap
                 IN  IF sub = {} THEN doc[f]
                     ELSE [k \in DOMAIN old \cup {p[2] : p \in sub} |->
                             IF <<f, k>> \in DOMAIN data THEN data[<<f, k>>] ELSE old[k]]]

-----------------------------------------------------------------------------
(* errorTypes.ts *)

\* thrown values: new Error(message), a FirebaseError of the provider
JsError(message) == [type |-> "Error", message |-> message]
FirebaseError(code) == [type |-> "FirebaseError", code |-> code, message |-> "provider"]
\* a thrown value that is an object but no Error, as the ErrorResponse objects are
PlainObject(fields) == [type |-> "object", value |-> fields]

\* any other thrown value: a string, null, undefined
NonError(kind) == [type |-> kind]

\* the application error codes
ErrorCode == {"auth/error", "permission-denied", "not-found", "validation-error",
              "network-error", "server-error", "unknown"}

\* the mutant: the prefix tested is 'auth', without the slash
mapFirebaseErrorCodeAnyAuth(firebaseCode) ==
    IF Len(firebaseCode) >= 1 /\ firebaseCode[1] = "auth" THEN "auth/error"
    ELSE IF firebaseCode = <<"permission-denied">> THEN "permission-denied"
    ELSE IF firebaseCode = <<"not-found">> THEN "not-found"
    ELSE "unknown"

\* a provider code is its list of "/"-separated parts: auth/x is <<"auth", "x">>
mapFirebaseErrorCode(firebaseCode) ==
    IF Len(firebaseCode) >= 2 /\ firebaseCode[1] = "auth" THEN "auth/error"
    ELSE IF firebaseCode = <<"permission-denied">> THEN "permission-denied"
    ELSE IF firebaseCode = <<"not-found">> THEN "not-found"
    ELSE "unknown"

handleError(error) ==
    IF error.type = "FirebaseError"
    THEN [code |-> mapFirebaseErrorCode(error.code), message |-> error.message,
          originalError |-> error]
    ELSE IF error.type = "Error"
    THEN [code |-> "unknown", message |-> error.message, originalError |-> error]
    ELSE [code |-> "unknown", message |-> "An unexpected error occurred",
          originalError |-> error]

-----------------------------------------------------------------------------
(* projectService.ts *)

Idle == [op |-> "idle"]
NoCall == [op |-> "none", ok |-> FALSE]

\* the provider's answer to a write: Ok, or the code it rejects the write with
Ok == <<"ok">>
WriteFailures == {<<"unavailable">>, <<"permission-denied">>}

convertToProject(id, data) ==
    [f \in DOMAIN data \cup {"id", "owner", "phaseAssignments"} |->
        CASE f = "id" -> id
          [] f = "owner" ->
                IF "owner" \in DOMAIN data /\ data.owner # Null THEN data.owner
                ELSE data.createdBy
          [] f = "phaseAssignments" ->
                IF "phaseAssignments" \in DOMAIN data THEN data.phaseAssignments
                ELSE EmptyMap
          [] OTHER -> data[f]]

createErrorResponse(error, defaultMessage) ==
    LET appError == handleError(error)
    IN  [message |-> IF appError.message # "" THEN appError.message ELSE defaultMessage,
         code |-> appError.code]

RECURSIVE ReducePhases(_, _)
ReducePhases(i, phases) ==
    IF i > Len(PHASE_SEQUENCE) THEN phases
    ELSE ReducePhases(i + 1, Put(phases, PHASE_SEQUENCE[i], NOT_STARTED))

\* the mutant: the reduction starts after the first phase of the sequence
createDefaultPhasesSkipFirst == ReducePhases(2, EmptyMap)

createDefaultPhases == ReducePhases(1, EmptyMap)

\* the newProject object of createProject
NewProject(projectData, userId) ==
    [name |-> projectData.name,
     createdBy |-> userId,
     owner |-> userId,
     assignees |-> <<userId>>,
     phaseAssignments |-> EmptyMap,
     currentPhase |-> SUBTITLE_TRANSLATION,
     phases |-> createDefaultPhases]

\* a call that threw: the catch block rethrows createErrorResponse(error)
Thrown(c, op, id, error, defaultMessage) ==
    [op |-> op, client |-> c, id |-> id, ok |-> FALSE,
     error |-> createErrorResponse(error, defaultMessage)]

createProject(c, projectData, userId) ==
    /\ call[c] = Idle
    /\ \E id \in ProjectIds :
         /\ projects[id] = NoDoc      \* addDoc picks a fresh document id
         /\ \/ /\ projects' = [projects EXCEPT ![id] = NewProject(projectData, userId)]
               /\ ret' = [op |-> "createProject", client |-> c, id |-> id, ok |-> TRUE,
                          userId |-> userId,
                          project |-> Put(NewProject(projectData, userId), "id", id)]
            \/ \E code \in WriteFailures :
               /\ ret' = Thrown(c, "createProject", id, FirebaseError(code),
                                "Failed to create project")
               /\ projects' = projects
    /\ UNCHANGED <<call, page, cacheVars, batchVars, rulesVars, appVars>>

getProject(c, id) ==
    /\ call[c] = Idle
    /\ IF projects[id] = NoDoc
       THEN ret' = Thrown(c, "getProject", id, JsError("not found"), "Failed to fetch project")
       ELSE ret' = [op |-> "getProject", client |-> c, id |-> id, ok |-> TRUE,
                    project |-> convertToProject(id, projects[id])]
    /\ UNCHANGED <<projects, call, page, cacheVars, batchVars, rulesVars, appVars>>

\* updateDoc(docRef, data): the provider applies it, rejects it, or finds no document
UpdateDocOutcomes(id) ==
    IF projects[id] = NoDoc THEN {<<"not-found">>} ELSE {Ok} \cup WriteFailures

\* the mutant: the update replaces the phases map by the one entry
PhaseStatusUpdateDataWholeMap(phase, status) ==
    IF status = IN_PROGRESS
    THEN (<<"phases">> :> (phase :> status)) @@ (<<"currentPhase">> :> phase)
    ELSE (<<"phases">> :> (phase :> status))

\* the mutant: currentPhase is not part of the update
PhaseStatusUpdateDataNoCurrent(phase, status) == (<<"phases", phase>> :> status)

\* the mutant: a status is never written back to not_started
PhaseStatusUpdateDataForwardOnly(phase, status) ==
    IF status = NOT_STARTED THEN EmptyMap
    ELSE IF status = IN_PROGRESS
    THEN (<<"phases", phase>> :> status) @@ (<<"currentPhase">> :> phase)
    ELSE (<<"phases", phase>> :> status)

\* the mutant: every status written moves currentPhase
PhaseStatusUpdateDataAlwaysCurrent(phase, status) ==
    (<<"phases", phase>> :> status) @@ (<<"currentPhase">> :> phase)

\* the updateData object of updateProjectPhaseStatus
PhaseStatusUpdateData(phase, status) ==
    IF status = IN_PROGRESS
    THEN (<<"phases", phase>> :> status) @@ (<<"currentPhase">> :> phase)
    ELSE (<<"phases", phase>> :> status)

\* the project object updateProjectPhaseStatus returns
PhaseStatusResult(currentProject, phase, status) ==
    LET updatedPhases == Put(currentProject.phases, phase, status)
    IN  Spread(Spread(currentProject, [phases |-> updatedPhases]),
               IF status = IN_PROGRESS THEN [currentPhase |-> phase] ELSE EmptyMap)

\* updateProjectPhaseStatus up to its first await: getDoc and the existence check
updateProjectPhaseStatusGetDoc(c, id, phase, status) ==
    /\ call[c] = Idle
    /\ IF projects[id] = NoDoc
       THEN /\ ret' = Thrown(c, "updateProjectPhaseStatus", id, JsError("not found"),
                             "Failed to update phase status")
            /\ call' = call
       ELSE /\ call' = [call EXCEPT ![c] =
                          [op |-> "updateProjectPhaseStatus", id |-> id, phase |-> phase,
                           status |-> status,
                           currentProject |-> convertToProject(id, projects[id])]]
            /\ ret' = NoCall
    /\ UNCHANGED <<projects, page, cacheVars, batchVars, rulesVars, exceptDetail>>

\* updateProjectPhaseStatus from updateDoc to its return
updateProjectPhaseStatusUpdateDoc(c) ==
    /\ call[c].op = "updateProjectPhaseStatus"
    /\ LET id == call[c].id
           phase == call[c].phase
           status == call[c].status
       IN  \E outcome \in UpdateDocOutcomes(id) :
             IF outcome = Ok
             THEN /\ projects' = [projects EXCEPT ![id] =
                                    ApplyUpdate(@, PhaseStatusUpdateData(phase, status))]
                  /\ ret' = [op |-> "updateProjectPhaseStatus", client |-> c, id |-> id,
                             ok |-> TRUE, phase |-> phase, status |-> status,
                             before |-> call[c].currentProject,
                             project |-> PhaseStatusResult(call[c].currentProject,
                                                           phase, status)]
             ELSE /\ ret' = Thrown(c, "updateProjectPhaseStatus", id, FirebaseError(outcome),
                                   "Failed to update phase status")
                  /\ projects' = projects
    /\ call' = [call EXCEPT ![c] = Idle]
    /\ UNCHANGED <<page, cacheVars, batchVars, rulesVars, exceptDetail>>

\* the updateData object of assignUserToPhase (userId || null)
AssignUpdateData(phase, userId) ==
    (<<"phaseAssignments", phase>> :> (IF userId # Null THEN userId ELSE Null))

\* the project object assignUserToPhase returns
AssignResult(currentProject, phase, userId) ==
    LET updatedPhaseAssignments ==
            IF userId # Null
            THEN Put(currentProject.phaseAssignments, phase, userId)
            ELSE Delete(currentProject.phaseAssignments, phase)
    IN  Spread(currentProject, [phaseAssignments |-> updatedPhaseAssignments])

\* assignUserToPhase up to its first await: getDoc and the existence check
assignUserToPhaseGetDoc(c, id, phase, userId) ==
    /\ call[c] = Idle
    /\ IF projects[id] = NoDoc
       THEN /\ ret' = Thrown(c, "assignUserToPhase", id, JsError("not found"),
                             "Failed to assign user to phase")
            /\ call' = call
       ELSE /\ call' = [call EXCEPT ![c] =
                          [op |-> "assignUserToPhase", id |-> id, phase |-> phase,
                           userId |-> userId,
                           currentProject |-> convertToProject(id, projects[id])]]
            /\ ret' = NoCall
    /\ UNCHANGED <<projects, page, cacheVars, batchVars, rulesVars, exceptDetail>>

\* assignUserToPhase from updateDoc to its return
assignUserToPhaseUpdateDoc(c) ==
    /\ call[c].op = "assignUserToPhase"
    /\ LET id == call[c].id
           phase == call[c].phase
           userId == call[c].userId
       IN  \E outcome \in UpdateDocOutcomes(id) :
             IF outcome = Ok
             THEN /\ projects' = [projects EXCEPT ![id] =
                                    ApplyUpdate(@, AssignUpdateData(phase, userId))]
                  /\ ret' = [op |-> "assignUserToPhase", client |-> c, id |-> id,
                             ok |-> TRUE, phase |-> phase, userId |-> userId,
                             before |-> call[c].currentProject,
                             project |-> AssignResult(call[c].currentProject,
                                                      phase, userId)]
             ELSE /\ ret' = Thrown(c, "assignUserToPhase", id, FirebaseError(outcome),
                                   "Failed to assign user to phase")
                  /\ projects' = projects
    /\ call' = [call EXCEPT ![c] = Idle]
    /\ UNCHANGED <<page, cacheVars, batchVars, rulesVars, exceptDetail>>

\* the fields updateProject copies from projectData into the project it returns
CopiedFields == {"name", "description", "sourceLanguage", "targetLanguages",
                 "currentPhase", "owner", "assignees", "phaseAssignments"}

\* the project object updateProject returns
UpdateProjectResult(currentData, projectData) ==
    LET copied == [f \in {g \in CopiedFields : <<g>> \in DOMAIN projectData} |->
                      projectData[<<f>>]]
        updatedProject == Spread(currentData, copied)
        nested(f) == {p[2] : p \in {q \in DOMAIN projectData : Len(q) = 2 /\ q[1] = f}}
    IN  Spread(updatedProject,
               [phases |->
                   [k \in DOMAIN updatedProject.phases \cup nested("phases") |->
                       IF k \in nested("phases") THEN projectData[<<"phases", k>>]
                       ELSE updatedProject.phases[k]],
                phaseAssignments |->
                   [k \in DOMAIN updatedProject.phaseAssignments
                            \cup nested("phaseAssignments") |->
                       IF k \in nested("phaseAssignments")
                       THEN projectData[<<"phaseAssignments", k>>]
                       ELSE updatedProject.phaseAssignments[k]]])

\* updateProject up to its first await: getDoc and the existence check
updateProjectGetDoc(c, id, projectData) ==
    /\ call[c] = Idle
    /\ IF projects[id] = NoDoc
       THEN /\ ret' = Thrown(c, "updateProject", id, JsError("not found"),
                             "Failed to update project")
            /\ call' = call
       ELSE /\ call' = [call EXCEPT ![c] =
                          [op |-> "updateProject", id |-> id, projectData |-> projectData,
                           currentProject |-> convertToProject(id, projects[id])]]
            /\ ret' = NoCall
    /\ UNCHANGED <<projects, page, cacheVars, batchVars, rulesVars, appVars>>

\* updateProject from updateDoc to its return; the edit page, which is the
\* caller, leaves for the project page once the call has returned a project
updateProjectUpdateDoc(c) ==
    /\ call[c].op = "updateProject"
    /\ LET id == call[c].id
           projectData == call[c].projectData
       IN  \E outcome \in UpdateDocOutcomes(id) :
             IF outcome = Ok
             THEN /\ projects' = [projects EXCEPT ![id] = ApplyUpdate(@, projectData)]
                  /\ ret' = [op |-> "updateProject", client |-> c, id |-> id, ok |-> TRUE,
                             before |-> call[c].currentProject,
                             project |-> UpdateProjectResult(call[c].currentProject,
                                                             projectData)]
                  /\ page' = [page EXCEPT ![c] = NoDoc]
             ELSE /\ ret' = Thrown(c, "updateProject", id, FirebaseError(outcome),
                                   "Failed to update project")
                  /\ projects' = projects
                  /\ page' = page
    /\ call' = [call EXCEPT ![c] = Idle]
    /\ UNCHANGED <<cacheVars, batchVars, rulesVars, appVars>>

-----------------------------------------------------------------------------
(* app/projects/[id]/edit/page.tsx *)

\* the effect's fetchProject: getProject(id), then setProject
EditPageFetchProject(c, id) ==
    /\ call[c] = Idle
    /\ page[c] = NoDoc
    /\ IF projects[id] = NoDoc
       THEN /\ ret' = Thrown(c, "getProject", id, JsError("not found"),
                             "Failed to fetch project")
            /\ page' = page
       ELSE /\ ret' = [op |-> "getProject", client |-> c, id |-> id, ok |-> TRUE,
                       project |-> convertToProject(id, projects[id])]
            /\ page' = [page EXCEPT ![c] = convertToProject(id, projects[id])]
    /\ UNCHANGED <<projects, call, cacheVars, batchVars, rulesVars, appVars>>

\* the object handleUpdateProject passes to updateProject: the form's fields,
\* and the phases and currentPhase of the project the page has loaded
EditPageUpdate(project, formData) ==
    (<<"name">> :> formData.name)
        @@ (<<"phases">> :> project.phases)
        @@ (<<"currentPhase">> :> project.currentPhase)

handleUpdateProject(c, formData) ==
    /\ page[c] # NoDoc          \* if (!user || !id || !project) return
    /\ updateProjectGetDoc(c, page[c].id, EditPageUpdate(page[c], formData))

-----------------------------------------------------------------------------
(* firebase/batchOperations.ts *)

MAX_BATCH_SIZE == 500

ProjectRef(id) == <<"projects", id>>
VideoRef(id, videoId) == <<"projects", id, videoId>>
DeleteOp(ref) == [type |-> "delete", ref |-> ref]

Min(a, b) == IF a < b THEN a ELSE b

\* the mutant: the slices are one operation short
SliceShort(operations, from, to) ==
    SubSeq(operations, from + 1, Min(to - 1, Len(operations)))

\* operations.slice(from, to), indices from 0
Slice(operations, from, to) == SubSeq(operations, from + 1, Min(to, Len(operations)))

\* for (let i = 0; i < operations.length; i += MAX_BATCH_SIZE) chunks.push(slice)
RECURSIVE ChunksFrom(_, _)
ChunksFrom(operations, i) ==
    IF i < Len(operations)
    THEN <<Slice(operations, i, i + MAX_BATCH_SIZE)>>
            \o ChunksFrom(operations, i + MAX_BATCH_SIZE)
    ELSE << >>

\* the store after batch.commit() of the deletes of a chunk
VideosAfterCommit(chunk) ==
    [id \in ProjectIds |->
        LET deleted == {chunk[i].ref[3] :
                          i \in {j \in DOMAIN chunk : /\ Len(chunk[j].ref) = 3
                                                      /\ chunk[j].ref[2] = id}}
        IN  SelectSeq(videos[id], LAMBDA v : v \notin deleted)]

ProjectsAfterCommit(chunk) ==
    [id \in ProjectIds |->
        IF \E i \in DOMAIN chunk : chunk[i].ref = ProjectRef(id) THEN NoDoc
        ELSE projects[id]]

\* executeBatch(operations), called by caller, up to its first commit
ExecuteBatchStart(c, caller, id, operations) ==
    /\ commitLog' = << >>
    /\ IF Len(operations) = 0
       THEN /\ call' = [call EXCEPT ![c] = Idle]
            /\ ret' = [op |-> caller, client |-> c, id |-> id, ok |-> TRUE,
                       operations |-> operations, chunks |-> << >>]
       ELSE /\ call' = [call EXCEPT ![c] =
                          [op |-> "executeBatch", caller |-> caller, id |-> id,
                           operations |-> operations,
                           chunks |-> ChunksFrom(operations, 0), next |-> 1]]
            /\ ret' = NoCall

\* executeBatch called with the deletes of the videos of project id, in order
executeBatch(c, id) ==
    /\ call[c] = Idle
    /\ ExecuteBatchStart(c, "executeBatch", id,
                         [i \in DOMAIN videos[id] |-> DeleteOp(VideoRef(id, videos[id][i]))])
    /\ UNCHANGED <<projects, calls, page, videos, lastVideoId, cacheVars, rulesVars, appVars>>

\* the mutant: a failed commit is passed over and the loop goes on
CommitFailedGoesOn(c, outcome) ==
    /\ call' = [call EXCEPT ![c].next = @ + 1]
    /\ ret' = ret
    /\ UNCHANGED <<projects, videos>>

\* await batch.commit() rejects: executeBatch throws, and so does its caller
CommitFailed(c, outcome) ==
    /\ call' = [call EXCEPT ![c] = Idle]
    /\ ret' = [op |-> call[c].caller, client |-> c, id |-> call[c].id, ok |-> FALSE,
               operations |-> call[c].operations, chunks |-> call[c].chunks,
               failedChunk |-> call[c].next,
               error |-> createErrorResponse(FirebaseError(outcome), "Failed")]
    /\ UNCHANGED <<projects, videos>>

\* one turn of the loop over the chunks: writeBatch, the deletes, await commit
executeBatchCommit(c) ==
    /\ call[c].op = "executeBatch"
    /\ call[c].next <= Len(call[c].chunks)
    /\ \E outcome \in {Ok} \cup WriteFailures :
         /\ commitLog' = Append(commitLog, [chunk |-> call[c].next, outcome |-> outcome])
         /\ IF outcome = Ok
            THEN /\ projects' = ProjectsAfterCommit(call[c].chunks[call[c].next])
                 /\ videos' = VideosAfterCommit(call[c].chunks[call[c].next])
                 /\ call' = [call EXCEPT ![c].next = @ + 1]
                 /\ ret' = ret
            ELSE CommitFailed(c, outcome)
    /\ UNCHANGED <<calls, page, lastVideoId, cacheVars, rulesVars, appVars>>

\* the loop is over: executeBatch returns, and so does deleteProject
executeBatchReturn(c) ==
    /\ call[c].op = "executeBatch"
    /\ call[c].next > Len(call[c].chunks)
    /\ call' = [call EXCEPT ![c] = Idle]
    /\ ret' = [op |-> call[c].caller, client |-> c, id |-> call[c].id, ok |-> TRUE,
               operations |-> call[c].operations, chunks |-> call[c].chunks]
    /\ UNCHANGED <<projects, calls, page, batchVars, cacheVars, rulesVars, appVars>>

-----------------------------------------------------------------------------
(* projectService.ts: deleteProject, createVideo *)

\* what getProject throws: the ErrorResponse object, which is no Error
ErrorResponseThrown == [type |-> "ErrorResponse"]

\* deleteProject up to its first await: getDoc and the existence check
deleteProjectGetDoc(c, id) ==
    /\ call[c] = Idle
    /\ IF projects[id] = NoDoc
       THEN /\ ret' = Thrown(c, "deleteProject", id, JsError("not found"),
                             "Failed to delete project")
            /\ call' = call
       ELSE /\ call' = [call EXCEPT ![c] =
                          [op |-> "deleteProject", id |-> id, step |-> "getProject"]]
            /\ ret' = NoCall
    /\ UNCHANGED <<projects, page, batchVars, cacheVars, rulesVars, appVars>>

\* getProjectVideos: await getProject(projectId)
deleteProjectGetProject(c) ==
    /\ call[c].op = "deleteProject" /\ call[c].step = "getProject"
    /\ IF projects[call[c].id] = NoDoc
       THEN /\ ret' = Thrown(c, "deleteProject", call[c].id, ErrorResponseThrown,
                             "Failed to delete project")
            /\ call' = [call EXCEPT ![c] = Idle]
       ELSE /\ call' = [call EXCEPT ![c].step = "getDocs"]
            /\ ret' = ret
    /\ UNCHANGED <<projects, calls, page, batchVars, cacheVars, rulesVars, appVars>>

\* querySnapshot.docs of orderBy('updatedAt', 'desc'): newest first
VideosNewestFirst(id) ==
    [i \in DOMAIN videos[id] |-> videos[id][Len(videos[id]) + 1 - i]]

\* the operations array of deleteProject
DeleteProjectOperations(id, videoIds) ==
    <<DeleteOp(ProjectRef(id))>> \o [i \in DOMAIN videoIds |-> DeleteOp(VideoRef(id, videoIds[i]))]

\* getProjectVideos: await getDocs(q); then the operations and executeBatch
deleteProjectGetDocs(c) ==
    /\ call[c].op = "deleteProject" /\ call[c].step = "getDocs"
    /\ ExecuteBatchStart(c, "deleteProject", call[c].id,
                         DeleteProjectOperations(call[c].id, VideosNewestFirst(call[c].id)))
    /\ UNCHANGED <<projects, calls, page, videos, lastVideoId, cacheVars, rulesVars, appVars>>

\* createVideo up to its first await: getProject(projectId)
createVideoGetProject(c, id) ==
    /\ call[c] = Idle
    /\ IF projects[id] = NoDoc
       THEN /\ ret' = Thrown(c, "createVideo", id, ErrorResponseThrown,
                             "Failed to create video")
            /\ call' = call
       ELSE /\ call' = [call EXCEPT ![c] = [op |-> "createVideo", id |-> id]]
            /\ ret' = NoCall
    /\ UNCHANGED <<projects, page, batchVars, cacheVars, rulesVars, appVars>>

\* createVideo from addDoc to its return
createVideoAddDoc(c) ==
    /\ call[c].op = "createVideo"
    /\ \E outcome \in {Ok} \cup WriteFailures :
         IF outcome = Ok
         THEN /\ videos' = [videos EXCEPT ![call[c].id] = Append(@, lastVideoId + 1)]
              /\ lastVideoId' = lastVideoId + 1
              /\ ret' = [op |-> "createVideo", client |-> c, id |-> call[c].id,
                         ok |-> TRUE, video |-> lastVideoId + 1]
         ELSE /\ ret' = Thrown(c, "createVideo", call[c].id, FirebaseError(outcome),
                               "Failed to create video")
              /\ UNCHANGED <<videos, lastVideoId>>
    /\ call' = [call EXCEPT ![c] = Idle]
    /\ UNCHANGED <<projects, calls, page, commitLog, cacheVars, rulesVars, appVars>>

-----------------------------------------------------------------------------
(* hooks/useProjects.ts *)

\* const projectsCache = createCache<Project[]>(5 * 60 * 1000);
PROJECTS_CACHE_TTL == 5 * 60 * 1000

\* the answers of the provider to a read: Ok, or the code it rejects the read with
ReadFailures == {<<"unavailable">>, <<"permission-denied">>}

\* getUserProjects(userId): the projects where createdBy == userId (their order,
\* by updatedAt, is not modelled: the list is the set of its projects)
UserProjects(userId) ==
    {convertToProject(id, projects[id]) :
        id \in {i \in ProjectIds : projects[i] # NoDoc /\ projects[i].createdBy = userId}}

NoFetch == [op |-> "none"]

\* the state of the hook: projects is << >> for null and <<list>> for a list;
\* pending holds the getUserProjects requests in flight, each with the userId
\* its fetchProjects closure was created for
HookInit(userId) ==
    /\ projectsCache = [u \in Users |-> NoEntry]
    /\ hook = [userId |-> userId, projects |-> << >>, isLoading |-> TRUE, error |-> Null,
               pending |-> << >>, fetches |-> 0, requests |-> 0, ticks |-> 0,
               last |-> NoFetch]

\* the clock moves on by dt milliseconds
HookTick(dt) ==
    /\ hook.ticks < MaxTicks
    /\ now' = now + dt
    /\ hook' = [hook EXCEPT !.ticks = @ + 1, !.last = NoFetch]
    /\ UNCHANGED <<ttlMs, cache, cacheRet, lastSet, projectsCache, serviceVars, loadVars,
                   detailVars, userVars, collVars, pureVars, asyncVars>>

Pending(kind, userId) == [kind |-> kind, userId |-> userId]

\* fetchProjects on a cache hit: the cached list is shown, and getUserProjects is
\* still called "in background to refresh silently"
FetchOnHit(userId, entry, forceRefresh) ==
    hook' = [hook EXCEPT
                !.userId = userId,
                !.projects = <<entry.data>>, !.isLoading = FALSE, !.error = Null,
                !.pending = Append(@, Pending("background", userId)),
                !.fetches = @ + 1, !.requests = @ + 1,
                !.last = [op |-> "fetchProjects", forceRefresh |-> forceRefresh,
                          live |-> TRUE, requested |-> TRUE]]

\* the fetchProjects callback created for userId, called with forceRefresh: up
\* to its await of getUserProjects, or to its return; projectsCache.get removes
\* the entry it finds expired
fetchProjectsFor(userId, forceRefresh) ==
    /\ hook.fetches < MaxFetches
    /\ IF userId = Null
       THEN /\ hook' = [hook EXCEPT
                           !.userId = userId,
                           !.projects = << >>, !.isLoading = FALSE, !.fetches = @ + 1,
                           !.last = [op |-> "fetchProjects", forceRefresh |-> forceRefresh,
                                     live |-> FALSE, requested |-> FALSE]]
            /\ projectsCache' = projectsCache
       ELSE LET entry == projectsCache[userId]
                live == entry # NoEntry /\ ~IsExpired(entry)
            IN  /\ projectsCache' =
                      IF ~forceRefresh /\ entry # NoEntry /\ IsExpired(entry)
                      THEN [projectsCache EXCEPT ![userId] = NoEntry]
                      ELSE projectsCache
                /\ IF ~forceRefresh /\ live
                   THEN FetchOnHit(userId, entry, forceRefresh)
                   ELSE hook' = [hook EXCEPT
                           !.userId = userId,
                           !.isLoading = TRUE, !.error = Null,
                           !.pending = Append(@, Pending("foreground", userId)),
                           !.fetches = @ + 1, !.requests = @ + 1,
                           !.last = [op |-> "fetchProjects", forceRefresh |-> forceRefresh,
                                     live |-> live, requested |-> TRUE]]
    /\ UNCHANGED exceptHook

\* fetchProjects(forceRefresh) of the current render
fetchProjects(forceRefresh) == fetchProjectsFor(hook.userId, forceRefresh)

\* refreshProjects: await fetchProjects(true)
refreshProjects == fetchProjects(TRUE)

\* the userId passed to the hook changes (another user signs in, or null on
\* sign-out): fetchProjects is created anew and the initial-fetch effect calls it
userIdChanges(userId) ==
    /\ userId # hook.userId
    /\ fetchProjectsFor(userId, FALSE)

RemoveAt(seq, i) == SubSeq(seq, 1, i - 1) \o SubSeq(seq, i + 1, Len(seq))

\* the error state after a rejected foreground request: getUserProjects throws
\* createErrorResponse(error), the hook's catch calls handleError on that object
FetchError(outcome) ==
    handleError(PlainObject(createErrorResponse(FirebaseError(outcome),
                                                "Failed to fetch user projects")))

\* the i-th getUserProjects request in flight resolves or rejects; its
\* continuation belongs to the fetchProjects call that made it
getUserProjectsSettles(i) ==
    /\ i \in DOMAIN hook.pending
    /\ LET kind == hook.pending[i].kind
           userId == hook.pending[i].userId
       IN  \E outcome \in {Ok} \cup ReadFailures :
             IF outcome = Ok
             THEN /\ projectsCache' = [projectsCache EXCEPT ![userId] =
                                          CacheEntry(UserProjects(userId), now)]
                  /\ hook' = [hook EXCEPT
                                 !.projects = <<UserProjects(userId)>>,
                                 !.isLoading = IF kind = "foreground" THEN FALSE ELSE @,
                                 !.pending = RemoveAt(@, i),
                                 !.last = [op |-> "settled", kind |-> kind,
                                           userId |-> userId, outcome |-> outcome]]
             ELSE /\ projectsCache' = projectsCache
                  /\ hook' = [hook EXCEPT
                                 !.error = IF kind = "foreground" THEN FetchError(outcome)
                                           ELSE @,
                                 !.isLoading = IF kind = "foreground" THEN FALSE ELSE @,
                                 !.pending = RemoveAt(@, i),
                                 !.last = [op |-> "settled", kind |-> kind,
                                           userId |-> userId, outcome |-> outcome]]
    /\ UNCHANGED exceptHook

-----------------------------------------------------------------------------
(* app/projects/[id]/page.tsx and app/projects/overview/page.tsx: loading *)

LoadPages == {"detail", "overview"}

\* const maxAttempts = 3;
maxAttempts == 3
\* setTimeout(resolve, 500)
RETRY_DELAY == 500

DetailError == "Failed to load project details. Please try again."
OverviewError == "Failed to load project data. Please try again."
LoadError(pg) == IF pg = "detail" THEN DetailError ELSE OverviewError

\* useState(...) of a page that has just been mounted, and no run of its effect;
\* data is << >> for null and <<value>> for a loaded value
NotLoaded ==
    [user |-> Null, isAdmin |-> FALSE, mounted |-> TRUE, step |-> "idle", loading |-> TRUE,
     error |-> Null, data |-> << >>, attempts |-> 0, requests |-> 0, failures |-> 0,
     waited |-> 0]

LoadInit == load = [pg \in LoadPages |-> NotLoaded]

\* the effect runs (on mount, or when user or isAdmin change) while no earlier
\* run is under way: fetchProject / fetchData up to the first await
LoadEffect(pg, user, isAdmin) ==
    /\ load[pg].mounted
    /\ load[pg].step \in {"idle", "done"}
    /\ IF user = Null
       THEN load' = [load EXCEPT ![pg].user = user, ![pg].isAdmin = isAdmin,
                                 ![pg].step = "idle"]
       ELSE load' = [load EXCEPT ![pg] =
                        [@ EXCEPT !.user = user, !.isAdmin = isAdmin, !.step = "getting",
                                  !.loading = TRUE, !.error = Null, !.attempts = 0,
                                  !.requests = 1, !.failures = 0, !.waited = 0]]
    /\ UNCHANGED exceptLoad

\* what the read of the page returns when it succeeds
LoadData(pg) ==
    IF pg = "detail" THEN convertToProject("p1", projects["p1"])
    ELSE UserProjects(load[pg].user)

\* can the read fail, can it succeed: getProject(id) throws when the document
\* is missing, and either read can be rejected by the provider
LoadOutcomes(pg) ==
    IF pg = "detail" /\ projects["p1"] = NoDoc THEN {"rejected"} ELSE {"resolved", "rejected"}

\* the mutant: the run gives up only after one more failed attempt
GiveUpLate(attempts) == attempts > maxAttempts

\* if (attempts >= maxAttempts) throw err;
GiveUp(attempts) == attempts >= maxAttempts

\* catch, finally: the error string is set and loading is cleared; the overview
\* page sets nothing once it is unmounted
LoadFailed(pg, l) ==
    IF pg = "overview" /\ ~l.mounted
    THEN [l EXCEPT !.step = "done"]
    ELSE [l EXCEPT !.step = "done", !.error = LoadError(pg), !.loading = FALSE]

\* the pending getProject / getUserProjects settles: the loop body, and all that
\* follows the loop up to the next await
LoadSettles(pg) ==
    /\ load[pg].step = "getting"
    /\ \E outcome \in LoadOutcomes(pg) :
         LET l == load[pg]
             answer == LoadData(pg)
         IN
         IF outcome = "rejected"
         THEN LET failed == [l EXCEPT !.attempts = @ + 1, !.failures = @ + 1]
              IN  IF GiveUp(failed.attempts)
                  THEN load' = [load EXCEPT ![pg] = LoadFailed(pg, failed)]
                  ELSE load' = [load EXCEPT ![pg] = [failed EXCEPT !.step = "waiting"]]
         ELSE IF pg = "overview" /\ ~l.mounted
              THEN load' = [load EXCEPT ![pg].step = "done"]
         ELSE IF pg = "detail" /\ l.isAdmin
              THEN load' = [load EXCEPT ![pg].data = <<answer>>, ![pg].step = "eligibleUsers"]
         ELSE load' = [load EXCEPT ![pg].data = <<answer>>, ![pg].step = "done",
                                   ![pg].loading = FALSE]
    /\ UNCHANGED exceptLoad

\* the timer of the retry fires: the while condition, and the next attempt
LoadRetries(pg) ==
    /\ load[pg].step = "waiting"
    /\ LET l == [load[pg] EXCEPT !.waited = @ + RETRY_DELAY]
       IN  IF pg = "overview" /\ ~l.mounted
           THEN load' = [load EXCEPT ![pg] = [l EXCEPT !.step = "done"]]
           ELSE load' = [load EXCEPT ![pg] =
                            [l EXCEPT !.step = "getting", !.requests = @ + 1]]
    /\ UNCHANGED exceptLoad

\* await fetchEligibleUsers() is over, whether its reads succeeded or not
LoadEligibleUsersSettle(pg) ==
    /\ load[pg].step = "eligibleUsers"
    /\ load' = [load EXCEPT ![pg].step = "done", ![pg].loading = FALSE]
    /\ UNCHANGED exceptLoad

\* the cleanup of the overview page's effect: isMounted = false
LoadUnmount(pg) ==
    /\ pg = "overview"
    /\ load[pg].mounted
    /\ load[pg].step \notin {"idle", "done"}
    /\ load' = [load EXCEPT ![pg].mounted = FALSE]
    /\ UNCHANGED exceptLoad

-----------------------------------------------------------------------------
(* types.ts: UserRole; userService.ts (the users documents keep the fields  *)
(* displayName, isValidated and roles; email, photo and timestamps are left *)
(* out)                                                                     *)

ADMIN == "admin"
TRANSLATOR == "translator"
REVIEWER == "reviewer"
AUDIO_PRODUCER == "audio_producer"
USER == "user"
UserRole == {ADMIN, TRANSLATOR, REVIEWER, AUDIO_PRODUCER, USER}

\* array.includes(x)
Includes(array, x) == \E i \in DOMAIN array : array[i] = x

\* emailForDisplay: the part of the account's email before the '@' (the
\* accounts of the model have an email, so it is not empty)
EmailForDisplay(uid) == <<"email", uid>>

\* a || b on strings: '' and null are falsy
OrElse(a, b) == IF a \in {"", Null} THEN b ELSE a

\* displayName: data.displayName || emailForDisplay || doc.id.substring(0, 8);
\* a display name is <<name>>, or the <<"email", uid>> it falls back to
convertToUserProfile(uid, data) ==
    [uid |-> uid,
     displayName |-> IF OrElse(data.displayName, Null) = Null THEN EmailForDisplay(uid)
                     ELSE <<data.displayName>>,
     isValidated |-> (data.isValidated = TRUE), roles |-> data.roles]

\* const newUserProfile = { ..., displayName: userData.displayName || null,
\*                          isValidated: userData.isValidated || false,
\*                          roles: userData.roles || [UserRole.USER], ... }
NewUserProfile(userData) ==
    [displayName |-> IF "displayName" \in DOMAIN userData
                     THEN OrElse(userData.displayName, Null) ELSE Null,
     isValidated |-> IF "isValidated" \in DOMAIN userData THEN userData.isValidated ELSE FALSE,
     roles |-> IF "roles" \in DOMAIN userData THEN userData.roles ELSE <<USER>>]

\* return { ...newUserProfile, createdAt: new Date(), updatedAt: new Date() }:
\* the object written, its displayName << >> for null
CreatedProfile(uid, newUserProfile) ==
    [uid |-> uid,
     displayName |-> IF newUserProfile.displayName = Null THEN << >>
                     ELSE <<newUserProfile.displayName>>,
     isValidated |-> newUserProfile.isValidated, roles |-> newUserProfile.roles]

\* throw handleError(error), as every function of userService.ts does
UserThrown(c, op, uid, error) ==
    [op |-> op, client |-> c, uid |-> uid, ok |-> FALSE, error |-> handleError(error)]

UserUpdateOutcomes(uid) ==
    IF users[uid] = NoDoc THEN {<<"not-found">>} ELSE {Ok} \cup WriteFailures

\* createOrUpdateUserProfile(uid, userData) up to the answer of its getDoc
createOrUpdateUserProfileGetDoc(c, uid, userData) ==
    /\ call[c] = Idle
    /\ call' = [call EXCEPT ![c] =
                  [op |-> "createOrUpdateUserProfile", uid |-> uid, userData |-> userData,
                   exists |-> users[uid] # NoDoc, step |-> "write"]]
    /\ ret' = NoCall
    /\ UNCHANGED <<users, exceptUsers>>

\* await updateDoc(userRef, updateData), or await setDoc(userRef, newUserProfile)
\* and the return of the new profile
createOrUpdateUserProfileWrite(c) ==
    /\ call[c].op = "createOrUpdateUserProfile" /\ call[c].step = "write"
    /\ LET uid == call[c].uid
           userData == call[c].userData
       IN  IF call[c].exists
           THEN \E outcome \in UserUpdateOutcomes(uid) :
                  IF outcome = Ok
                  THEN /\ users' = [users EXCEPT ![uid] = Spread(@, userData)]
                       /\ call' = [call EXCEPT ![c].step = "reread"]
                       /\ ret' = ret
                  ELSE /\ ret' = UserThrown(c, "createOrUpdateUserProfile", uid,
                                            FirebaseError(outcome))
                       /\ call' = [call EXCEPT ![c] = Idle]
                       /\ users' = users
           ELSE \E outcome \in {Ok} \cup WriteFailures :
                  IF outcome = Ok
                  THEN /\ users' = [users EXCEPT ![uid] = NewUserProfile(userData)]
                       /\ ret' = [op |-> "createOrUpdateUserProfile", client |-> c,
                                  uid |-> uid, ok |-> TRUE, created |-> TRUE,
                                  profile |-> CreatedProfile(uid,
                                                 NewUserProfile(userData))]
                       /\ call' = [call EXCEPT ![c] = Idle]
                  ELSE /\ ret' = UserThrown(c, "createOrUpdateUserProfile", uid,
                                            FirebaseError(outcome))
                       /\ call' = [call EXCEPT ![c] = Idle]
                       /\ users' = users
    /\ UNCHANGED exceptUsers

\* const updatedDoc = await getDoc(userRef); return convertToUserProfile(updatedDoc)
createOrUpdateUserProfileReread(c) ==
    /\ call[c].op = "createOrUpdateUserProfile" /\ call[c].step = "reread"
    /\ ret' = [op |-> "createOrUpdateUserProfile", client |-> c, uid |-> call[c].uid,
               ok |-> TRUE, created |-> FALSE,
               profile |-> convertToUserProfile(call[c].uid, users[call[c].uid])]
    /\ call' = [call EXCEPT ![c] = Idle]
    /\ UNCHANGED <<users, exceptUsers>>

\* if (!currentRoles.includes(UserRole.ADMIN)) { await updateDoc(...) }
PromoteStep(currentRoles) == IF Includes(currentRoles, ADMIN) THEN "reread" ELSE "update"

\* promoteToAdmin(userId) up to the answer of its first getDoc
promoteToAdminGetDoc(c, userId) ==
    /\ call[c] = Idle
    /\ IF users[userId] = NoDoc
       THEN /\ ret' = UserThrown(c, "promoteToAdmin", userId, JsError("not found"))
            /\ call' = call
       ELSE /\ call' = [call EXCEPT ![c] =
                          [op |-> "promoteToAdmin", uid |-> userId,
                           before |-> users[userId],
                           currentRoles |-> users[userId].roles,
                           step |-> PromoteStep(users[userId].roles)]]
            /\ ret' = NoCall
    /\ UNCHANGED <<users, exceptUsers>>

\* const updatedRoles = [...currentRoles, UserRole.ADMIN]
UpdatedRoles(currentRoles) ==
    IF Includes(currentRoles, ADMIN) THEN currentRoles ELSE Append(currentRoles, ADMIN)

\* await updateDoc(userRef, { roles: updatedRoles, isValidated: true, ... })
promoteToAdminUpdateDoc(c) ==
    /\ call[c].op = "promoteToAdmin" /\ call[c].step = "update"
    /\ \E outcome \in UserUpdateOutcomes(call[c].uid) :
         IF outcome = Ok
         THEN /\ users' = [users EXCEPT ![call[c].uid] =
                              Spread(@, [roles |-> UpdatedRoles(call[c].currentRoles),
                                         isValidated |-> TRUE])]
              /\ call' = [call EXCEPT ![c].step = "reread"]
              /\ ret' = ret
         ELSE /\ ret' = UserThrown(c, "promoteToAdmin", call[c].uid, FirebaseError(outcome))
              /\ call' = [call EXCEPT ![c] = Idle]
              /\ users' = users
    /\ UNCHANGED exceptUsers

\* const updatedDoc = await getDoc(userRef); return convertToUserProfile(updatedDoc)
promoteToAdminReread(c) ==
    /\ call[c].op = "promoteToAdmin" /\ call[c].step = "reread"
    /\ ret' = [op |-> "promoteToAdmin", client |-> c, uid |-> call[c].uid, ok |-> TRUE,
               before |-> call[c].before,
               profile |-> convertToUserProfile(call[c].uid, users[call[c].uid])]
    /\ call' = [call EXCEPT ![c] = Idle]
    /\ UNCHANGED <<users, exceptUsers>>

\* the query of adminExists: where('roles', 'array-contains', 'admin'), limit(1)
AnyAdmin == \E u \in Users : users[u] # NoDoc /\ Includes(users[u].roles, ADMIN)

\* what a lookup roleMap[phase] finds beside the four own keys of the object
\* literal: the members of Object.prototype, functions with their length, and
\* __proto__, an object with no length
ObjectPrototypeKeys ==
    {"constructor", "toString", "valueOf", "hasOwnProperty", "__proto__"}
ObjectPrototypeMember(key) ==
    CASE key = "constructor" -> [type |-> "function", length |-> 1]
      [] key = "toString" -> [type |-> "function", length |-> 0]
      [] key = "valueOf" -> [type |-> "function", length |-> 0]
      [] key = "hasOwnProperty" -> [type |-> "function", length |-> 1]
      [] key = "__proto__" -> [type |-> "object"]

JsArray(items) == [type |-> "array", items |-> items]

\* const requiredRoles = roleMap[phase] || [UserRole.ADMIN];
RequiredRoles(phase) ==
    CASE phase = "subtitle_translation" -> JsArray(<<TRANSLATOR>>)
      [] phase = "translation_proofreading" -> JsArray(<<REVIEWER>>)
      [] phase = "audio_production" -> JsArray(<<AUDIO_PRODUCER>>)
      [] phase = "audio_review" -> JsArray(<<REVIEWER>>)
      [] phase \in ObjectPrototypeKeys -> ObjectPrototypeMember(phase)
      [] OTHER -> JsArray(<<ADMIN>>)

\* getValidatedUsers(): every document of the users collection (the order of
\* the list, by displayName, is not modelled: the list is the set of its uids)
ValidatedUsers == {u \in Users : users[u] # NoDoc}

\* !roles.length
NoLength(roles) ==
    CASE roles.type = "array" -> Len(roles.items) = 0
      [] roles.type = "function" -> roles.length = 0
      [] OTHER -> TRUE

\* getUsersByRoles(roles) on the list it fetched: the uids it returns, or
\* "TypeError" when roles.includes is called on a value that has no includes
getUsersByRoles(roles) ==
    IF NoLength(roles) THEN [ok |-> TRUE, value |-> ValidatedUsers]
    ELSE IF roles.type = "array"
    THEN [ok |-> TRUE,
          value |-> {u \in ValidatedUsers :
                        \E i \in DOMAIN users[u].roles : Includes(roles.items, users[u].roles[i])}]
    ELSE IF \E u \in ValidatedUsers : users[u].roles # << >>
    THEN [ok |-> FALSE, value |-> {}]
    ELSE [ok |-> TRUE, value |-> {}]

\* getUsersForPhaseAssignment(phase): one read of the users collection
getUsersForPhaseAssignment(c, phase) ==
    /\ call[c] = Idle
    /\ LET result == getUsersByRoles(RequiredRoles(phase))
       IN  ret' = IF result.ok
                  THEN [op |-> "getUsersForPhaseAssignment", client |-> c, phase |-> phase,
                        ok |-> TRUE, value |-> result.value]
                  ELSE [op |-> "getUsersForPhaseAssignment", client |-> c, phase |-> phase,
                        ok |-> FALSE, value |-> {}]
    /\ UNCHANGED <<call, users, exceptUsers>>

-----------------------------------------------------------------------------
(* context/AuthContext.tsx, app/team/page.tsx, app/admin/init/page.tsx *)

\* the profile data of signup and of the first sign-in
NewUserData == [isValidated |-> FALSE, roles |-> <<USER>>]

\* signup, and the profile creation of onAuthStateChanged when getUserProfile
\* found no profile: the account is new and its profile is created
signup(c) ==
    /\ users[UserOf(c)] = NoDoc
    /\ createOrUpdateUserProfileGetDoc(c, UserOf(c), NewUserData)

\* AuthContext.updateUserRoles(roles)
updateUserRoles(c, roles) ==
    createOrUpdateUserProfileGetDoc(c, UserOf(c), [roles |-> roles])

\* the AuthProvider before anybody has signed in: user and userProfile are null
\* (<< >>), no signup runs, the auth-state listener has nothing to do
SignedOut ==
    [user |-> << >>, userProfile |-> << >>,
     signup |-> [step |-> "idle", displayName |-> ""],
     listener |-> [step |-> "idle", userData |-> << >>]]

\* hasRole(role): !!userProfile?.roles?.includes(role), on the userProfile an
\* AuthProvider holds
hasRoleIn(ctx, role) ==
    ctx.userProfile # << >> /\ Includes(ctx.userProfile[1].roles, role)

hasRole(c, role) == hasRoleIn(authCtx[c], role)

\* the team page: const isAdmin = hasRole(UserRole.ADMIN)
isAdmin(c) == hasRole(c, ADMIN)

\* no team page is open; of an open page, modeParam is the 'mode' parameter of
\* its URL (Null: none), users the list setUsers was called with (uid -> row),
\* roleSelections the ticks (uid -> role -> ticked), last the handler called last
TeamClosed ==
    [open |-> FALSE, modeParam |-> Null, isEditMode |-> FALSE, users |-> EmptyMap,
     roleSelections |-> EmptyMap, last |-> [op |-> "none", userId |-> Null, role |-> Null]]

\* a render that leaves the edit mode of a user who is no admin as it is
TeamRenderKeepsEditMode(t, admin) == t

\* a render of the team page: if (!isAdmin && isEditMode) setIsEditMode(false)
TeamRender(t, admin) ==
    IF t.open /\ ~admin /\ t.isEditMode THEN [t EXCEPT !.isEditMode = FALSE] ELSE t

\* the effect on [isAdmin, router, isEditMode], with the mode parameter it reads
\* from the URL
TeamModeEffect(t, admin, modeParam) ==
    IF ~t.open THEN t
    ELSE IF admin /\ modeParam = "edit" THEN [t EXCEPT !.isEditMode = TRUE]
    ELSE IF admin /\ modeParam \in {Null, ""} /\ t.isEditMode
    THEN [t EXCEPT !.modeParam = "edit"]     \* router.replace('/team?mode=edit')
    ELSE t

\* the page once it has settled: rendered, its effect run
TeamSettle(t, admin) == TeamModeEffect(TeamRender(t, admin), admin, t.modeParam)

\* the team pages rendered again with the userProfile the AuthProviders hold
TeamRendered(ctx) == [c \in Clients |-> TeamSettle(team[c], hasRoleIn(ctx[c], ADMIN))]

\* the AuthProvider of a signed-in user once its listener has loaded the profile
SignedIn(uid, data) ==
    [SignedOut EXCEPT !.user = <<[uid |-> uid, displayName |-> Null]>>,
                      !.userProfile = <<convertToUserProfile(uid, data)>>,
                      !.listener.step = "done"]

\* the call slot of the service call the auth-state listener of a client has in
\* flight while the call of its signup occupies the client's own slot
ListenerCall(c) == IF c = "c1" THEN "c2" ELSE "c1"

\* the answers of the authentication provider to createUserWithEmailAndPassword
\* and to updateProfile
AuthOutcomes == {Ok, <<"auth", "network-request-failed">>}

\* signup(email, password, displayName) up to the answer of
\* createUserWithEmailAndPassword: the account is new; the provider signs the
\* user in, which calls the auth-state listener, which runs up to its await of
\* getUserProfile
signupCreateUser(c, displayName) ==
    /\ authCtx[c].user = << >> /\ authCtx[c].signup.step \in {"idle", "failed"}
    /\ authCtx[c].listener.step \in {"idle", "done"}
    /\ users[UserOf(c)] = NoDoc
    /\ \E outcome \in AuthOutcomes :
         authCtx' = [authCtx EXCEPT ![c] =
            IF outcome = Ok
            THEN [@ EXCEPT !.user = <<[uid |-> UserOf(c), displayName |-> Null]>>,
                           !.signup = [step |-> IF displayName # "" THEN "updateProfile"
                                                ELSE "getDoc",
                                       displayName |-> displayName],
                           !.listener = [step |-> "getUserProfile", userData |-> << >>]]
            ELSE [@ EXCEPT !.signup = [step |-> "failed", displayName |-> displayName]]]
    /\ UNCHANGED <<call, ret, calls, users, adminPage, team, exceptUsers>>

\* if (displayName && user) { await updateProfile(user, { displayName }) }
signupUpdateProfile(c) ==
    /\ authCtx[c].signup.step = "updateProfile"
    /\ \E outcome \in AuthOutcomes :
         authCtx' = [authCtx EXCEPT ![c] =
            IF outcome = Ok
            THEN [@ EXCEPT !.user = <<[@[1] EXCEPT !.displayName =
                                                     authCtx[c].signup.displayName]>>,
                           !.signup.step = "getDoc"]
            ELSE [@ EXCEPT !.signup.step = "failed"]]
    /\ UNCHANGED <<call, ret, calls, users, adminPage, team, exceptUsers>>

\* the newUserData of signup: displayName: user.displayName || displayName || ''
SignupUserData(user, displayName) ==
    [displayName |-> OrElse(user.displayName, OrElse(displayName, "")),
     isValidated |-> FALSE, roles |-> <<USER>>]

\* signup calls createOrUpdateUserProfile(user.uid, newUserData): its getDoc
signupGetDoc(c) ==
    /\ authCtx[c].signup.step = "getDoc"
    /\ createOrUpdateUserProfileGetDoc(c, authCtx[c].user[1].uid,
            SignupUserData(authCtx[c].user[1], authCtx[c].signup.displayName))
    /\ authCtx' = [authCtx EXCEPT ![c].signup.step = "write"]
    /\ UNCHANGED <<calls, adminPage, team>>

\* signup goes on after an await of createOrUpdateUserProfile; when the call has
\* returned, setUserProfile(profile); when it has thrown, the catch rethrows
signupSettles(c) ==
    /\ authCtx[c].signup.step = "write"
    /\ \/ createOrUpdateUserProfileWrite(c)
       \/ createOrUpdateUserProfileReread(c)
    /\ authCtx' = [authCtx EXCEPT ![c] =
          IF call'[c] # Idle THEN @
          ELSE IF ret'.ok
          THEN [@ EXCEPT !.userProfile = <<ret'.profile>>, !.signup.step = "done"]
          ELSE [@ EXCEPT !.signup.step = "failed"]]
    /\ team' = TeamRendered(authCtx')
    /\ UNCHANGED <<calls, adminPage>>

\* the data the listener creates a profile with:
\* displayName: currentUser.displayName || ''
ListenerUserData(currentUser) ==
    [displayName |-> OrElse(currentUser.displayName, ""),
     isValidated |-> FALSE, roles |-> <<USER>>]

\* the listener's await of getUserProfile(currentUser.uid) is answered: with a
\* profile, setUserProfile(profile); with none, createOrUpdateUserProfile is
\* called with the display name the user object has now; the catch of a failed
\* read calls setUserProfile(null)
listenerGetUserProfile(c) ==
    /\ authCtx[c].listener.step = "getUserProfile"
    /\ LET currentUser == authCtx[c].user[1]
       IN  \E outcome \in {Ok} \cup ReadFailures :
             authCtx' = [authCtx EXCEPT ![c] =
                IF outcome # Ok
                THEN [@ EXCEPT !.userProfile = << >>, !.listener.step = "done"]
                ELSE IF users[currentUser.uid] # NoDoc
                THEN [@ EXCEPT !.userProfile = <<convertToUserProfile(currentUser.uid,
                                                     users[currentUser.uid])>>,
                               !.listener.step = "done"]
                ELSE [@ EXCEPT !.listener = [step |-> "getDoc",
                                             userData |-> <<ListenerUserData(currentUser)>>]]]
    /\ team' = TeamRendered(authCtx')
    /\ UNCHANGED <<call, ret, calls, users, adminPage, exceptUsers>>

\* the getDoc of the listener's createOrUpdateUserProfile
listenerGetDoc(c) ==
    /\ authCtx[c].listener.step = "getDoc"
    /\ createOrUpdateUserProfileGetDoc(ListenerCall(c), authCtx[c].user[1].uid,
                                       authCtx[c].listener.userData[1])
    /\ authCtx' = [authCtx EXCEPT ![c].listener.step = "write"]
    /\ UNCHANGED <<calls, adminPage, team>>

\* the listener goes on after an await of createOrUpdateUserProfile:
\* setUserProfile(newProfile), or setUserProfile(null) in its catch
listenerSettles(c) ==
    /\ authCtx[c].listener.step = "write"
    /\ \/ createOrUpdateUserProfileWrite(ListenerCall(c))
       \/ createOrUpdateUserProfileReread(ListenerCall(c))
    /\ authCtx' = [authCtx EXCEPT ![c] =
          IF call'[ListenerCall(c)] # Idle THEN @
          ELSE IF ret'.ok
          THEN [@ EXCEPT !.userProfile = <<ret'.profile>>, !.listener.step = "done"]
          ELSE [@ EXCEPT !.userProfile = << >>, !.listener.step = "done"]]
    /\ team' = TeamRendered(authCtx')
    /\ UNCHANGED <<calls, adminPage>>

\* the AuthProvider mounts in a browser where the client's user is signed in (a
\* page load): userProfile starts as null, onAuthStateChanged calls the
\* listener, which runs up to its await of getUserProfile; no page is open yet
authStateChanged(c) ==
    /\ authCtx[c].signup.step \in {"idle", "done", "failed"}
    /\ authCtx[c].listener.step \in {"idle", "done"}
    /\ call[c] = Idle
    /\ authCtx' = [authCtx EXCEPT ![c] =
          [SignedOut EXCEPT !.user = <<[uid |-> UserOf(c), displayName |-> Null]>>,
                            !.listener.step = "getUserProfile"]]
    /\ team' = [team EXCEPT ![c] = TeamClosed]
    /\ UNCHANGED <<call, ret, calls, users, adminPage, exceptUsers>>

\* logout(): await signOut(auth), setUserProfile(null); the listener is called
\* with no user (a signOut that fails sets the error message only)
logout(c) ==
    /\ authCtx[c].user # << >>
    /\ authCtx[c].signup.step \in {"idle", "done", "failed"}
    /\ authCtx[c].listener.step \in {"idle", "done"}
    /\ authCtx' = [authCtx EXCEPT ![c] = SignedOut]
    /\ team' = TeamRendered(authCtx')
    /\ UNCHANGED <<call, ret, calls, users, adminPage, exceptUsers>>

-----------------------------------------------------------------------------
(* userService.ts: setUserValidationStatus; app/team/page.tsx *)

\* setUserValidationStatus(uid, isValidated) up to the answer of its first getDoc
setUserValidationStatusGetDoc(c, uid, isValidated) ==
    /\ call[c] = Idle
    /\ IF users[uid] = NoDoc
       THEN /\ ret' = UserThrown(c, "setUserValidationStatus", uid, JsError("not found"))
            /\ call' = call
       ELSE /\ call' = [call EXCEPT ![c] =
                          [op |-> "setUserValidationStatus", uid |-> uid,
                           userData |-> [isValidated |-> isValidated], step |-> "write"]]
            /\ ret' = NoCall
    /\ UNCHANGED <<users, exceptUsers>>

\* await updateDoc(userRef, { isValidated, updatedAt })
setUserValidationStatusUpdateDoc(c) ==
    /\ call[c].op = "setUserValidationStatus" /\ call[c].step = "write"
    /\ \E outcome \in UserUpdateOutcomes(call[c].uid) :
         IF outcome = Ok
         THEN /\ users' = [users EXCEPT ![call[c].uid] = Spread(@, call[c].userData)]
              /\ call' = [call EXCEPT ![c].step = "reread"]
              /\ ret' = ret
         ELSE /\ ret' = UserThrown(c, "setUserValidationStatus", call[c].uid,
                                   FirebaseError(outcome))
              /\ call' = [call EXCEPT ![c] = Idle]
              /\ users' = users
    /\ UNCHANGED exceptUsers

\* const updatedDoc = await getDoc(userRef); return convertToUserProfile(updatedDoc)
setUserValidationStatusReread(c) ==
    /\ call[c].op = "setUserValidationStatus" /\ call[c].step = "reread"
    /\ ret' = [op |-> "setUserValidationStatus", client |-> c, uid |-> call[c].uid,
               ok |-> TRUE,
               profile |-> convertToUserProfile(call[c].uid, users[call[c].uid])]
    /\ call' = [call EXCEPT ![c] = Idle]
    /\ UNCHANGED <<users, exceptUsers>>

\* the team page is opened at /team or /team?mode=<modeParam>
teamOpen(c, modeParam) ==
    /\ ~team[c].open
    /\ team' = [team EXCEPT ![c] =
          TeamSettle([TeamClosed EXCEPT !.open = TRUE, !.modeParam = modeParam], isAdmin(c))]
    /\ UNCHANGED <<call, ret, calls, users, adminPage, authCtx, exceptUsers>>

\* the button 'Manage Users' / 'View Team', rendered for an admin:
\* setIsEditMode(!isEditMode) and router.replace; the effect that runs on the new
\* isEditMode reads the URL before or after the router has replaced it
teamToggleMode(c) ==
    /\ team[c].open /\ isAdmin(c)
    /\ LET newMode == ~team[c].isEditMode
           replaced == IF newMode THEN "edit" ELSE Null
           clicked == [team[c] EXCEPT !.isEditMode = newMode, !.modeParam = replaced,
                                      !.last = [op |-> "toggleMode", userId |-> Null,
                                                role |-> Null]]
       IN  \E seen \in {team[c].modeParam, replaced} :
             team' = [team EXCEPT ![c] =
                        TeamSettle(TeamModeEffect(clicked, TRUE, seen), TRUE)]
    /\ UNCHANGED <<call, ret, calls, users, adminPage, authCtx, exceptUsers>>

\* the row the management table shows for a document of the users collection
TeamRow(data) == [isValidated |-> (data.isValidated = TRUE), roles |-> data.roles]

\* initialRoleSelections of a row: every role unticked but 'user', then the
\* roles of the user ticked
InitialRoleSelections(roles) == [r \in UserRole |-> r = USER \/ Includes(roles, r)]

\* the fetchUsers effect of an admin in edit mode is answered: setUsers(userList),
\* setRoleSelections(initialRoleSelections) (the list of the view mode is not
\* part of the state)
teamFetchUsers(c) ==
    /\ team[c].open /\ authCtx[c].user # << >>
    /\ isAdmin(c) /\ team[c].isEditMode
    /\ LET listed == {u \in Users : users[u] # NoDoc}
       IN  team' = [team EXCEPT
              ![c].users = [u \in listed |-> TeamRow(users[u])],
              ![c].roleSelections = [u \in listed |-> InitialRoleSelections(users[u].roles)],
              ![c].last = [op |-> "fetchUsers", userId |-> Null, role |-> Null]]
    /\ UNCHANGED <<call, ret, calls, users, adminPage, authCtx, exceptUsers>>

\* toggleRoleCheckbox(userId, role) on a row of the management table
toggleRoleCheckbox(c, userId, role) ==
    /\ team[c].open /\ team[c].isEditMode
    /\ userId \in DOMAIN team[c].roleSelections
    /\ team' = [team EXCEPT
          ![c].roleSelections =
              IF ~isAdmin(c) \/ role = USER THEN @
              ELSE [@ EXCEPT ![userId][role] = ~@],
          ![c].last = [op |-> "toggleRoleCheckbox", userId |-> userId, role |-> role]]
    /\ UNCHANGED <<call, ret, calls, users, adminPage, authCtx, exceptUsers>>

\* the order of the keys of a row's role selections, as Object.entries lists them
RoleOrder == <<ADMIN, TRANSLATOR, REVIEWER, AUDIO_PRODUCER, USER>>

\* the roles of saveRoleChanges that follow 'user': those ticked, but 'user'
Ticked(selections) ==
    LET Chosen(r) == selections[r] /\ r # USER
    IN  SelectSeq(RoleOrder, Chosen)

\* saveRoleChanges(userId) up to the answer of createOrUpdateUserProfile's getDoc,
\* with the roles ticked for the user: selectedRoles is 'user' followed by them
saveRoleChanges(c, userId, ticked) ==
    /\ isAdmin(c)
    /\ users[userId] # NoDoc
    /\ createOrUpdateUserProfileGetDoc(c, userId, [roles |-> <<USER>> \o ticked])

\* saveRoleChanges(userId) on a row of the management table
teamSaveRoleChanges(c, userId) ==
    /\ team[c].open /\ team[c].isEditMode
    /\ userId \in DOMAIN team[c].users
    /\ saveRoleChanges(c, userId, Ticked(team[c].roleSelections[userId]))
    /\ team' = [team EXCEPT ![c].last = [op |-> "saveRoleChanges", userId |-> userId,
                                         role |-> Null]]
    /\ UNCHANGED <<adminPage, authCtx>>

\* toggleUserValidation(userId, currentStatus) on a row of the management
\* table, up to the answer of setUserValidationStatus's getDoc
toggleUserValidation(c, userId) ==
    /\ team[c].open /\ team[c].isEditMode
    /\ userId \in DOMAIN team[c].users
    /\ isAdmin(c)
    /\ setUserValidationStatusGetDoc(c, userId, ~team[c].users[userId].isValidated)
    /\ team' = [team EXCEPT ![c].last = [op |-> "toggleUserValidation", userId |-> userId,
                                         role |-> Null]]
    /\ UNCHANGED <<adminPage, authCtx>>

\* a handler of the team page goes on after an await of its service call; when
\* the call has returned, setUsers puts what was written into the row
teamCallSettles(c) ==
    /\ team[c].last.op \in {"saveRoleChanges", "toggleUserValidation"}
    /\ \/ createOrUpdateUserProfileWrite(c)
       \/ createOrUpdateUserProfileReread(c)
       \/ setUserValidationStatusUpdateDoc(c)
       \/ setUserValidationStatusReread(c)
    /\ team' = [team EXCEPT ![c].users =
          IF call'[c] = Idle /\ ret'.ok /\ ret'.uid \in DOMAIN @
          THEN [@ EXCEPT ![ret'.uid] = Spread(@, call[c].userData)]
          ELSE @]
    /\ UNCHANGED <<adminPage, authCtx>>

\* the effect of the admin initialization page: checkAdminExists
checkAdminExists(c) ==
    /\ ~adminPage[c].open
    /\ users[UserOf(c)] # NoDoc
    /\ \E outcome \in {Ok} \cup ReadFailures :
         adminPage' = [adminPage EXCEPT ![c] =
            [open |-> TRUE, loading |-> FALSE,
             hasAdmin |-> IF outcome = Ok THEN AnyAdmin ELSE FALSE,
             error |-> IF outcome = Ok THEN Null
                       ELSE "Failed to check admin status. Please try again.",
             success |-> FALSE]]
    /\ UNCHANGED <<call, ret, calls, users, sessionVars, exceptUsers>>

\* what the page shows when promoteToAdmin has returned or thrown
AfterPromote(c) ==
    IF call'[c] # Idle THEN adminPage
    ELSE IF ret'.ok
    THEN [adminPage EXCEPT ![c].success = TRUE, ![c].hasAdmin = TRUE]
    ELSE [adminPage EXCEPT ![c].error = "Failed to promote to admin. Please try again."]

\* the button 'Promote Myself to Admin', shown while hasAdmin is false
handlePromoteToAdmin(c) ==
    /\ adminPage[c].open /\ ~adminPage[c].loading /\ ~adminPage[c].hasAdmin
    /\ promoteToAdminGetDoc(c, UserOf(c))
    /\ adminPage' = [AfterPromote(c) EXCEPT ![c].error = IF call'[c] # Idle THEN Null ELSE @,
                                           ![c].success = FALSE]
    /\ UNCHANGED <<calls, sessionVars>>

\* handlePromoteToAdmin goes on after an await of promoteToAdmin
handlePromoteToAdminSettles(c) ==
    /\ \/ promoteToAdminUpdateDoc(c)
       \/ promoteToAdminReread(c)
    /\ adminPage' = AfterPromote(c)
    /\ UNCHANGED <<calls, sessionVars>>

-----------------------------------------------------------------------------
(* batchOperations.ts: deleteCollection. The collection is the number of its *)
(* documents; coll also keeps the locals of the one call made on it.         *)

MAX_ITERATIONS == 20

\* a collection of n documents on which deleteCollection has not been called
Collection(n) == [size |-> n, step |-> "idle"]

\* getDocs and batch.commit answer or are rejected by the provider
CollOutcomes == {"resolved", "rejected"}

\* while (batchCount < MAX_ITERATIONS)
LoopGoesOn(batchCount) == batchCount < MAX_ITERATIONS

\* deleteCollection(collectionPath, batchSize) up to the first getDocs
deleteCollection(batchSize) ==
    /\ coll.step = "idle"
    /\ coll' = [size |-> coll.size, step |-> "getDocs", initial |-> coll.size,
                batchSize |-> batchSize, safeBatchSize |-> Min(batchSize, MAX_BATCH_SIZE),
                batchCount |-> 0, docsDeleted |-> 0, snapshot |-> 0, warned |-> FALSE]
    /\ UNCHANGED exceptColl

\* const snapshot = await getDocs(query(collectionRef, limit(safeBatchSize)))
deleteCollectionGetDocs ==
    /\ coll.step = "getDocs"
    /\ \E outcome \in CollOutcomes :
         IF outcome = "rejected"
         THEN coll' = [coll EXCEPT !.step = "threw"]
         ELSE LET snapshot == Min(coll.size, coll.safeBatchSize)
              IN  coll' = [coll EXCEPT !.snapshot = snapshot,
                                       !.step = IF snapshot = 0 THEN "returned" ELSE "commit"]
    /\ UNCHANGED exceptColl

\* await batch.commit(), the counters, and the two ways out of the loop
deleteCollectionCommit ==
    /\ coll.step = "commit"
    /\ \E outcome \in CollOutcomes :
         IF outcome = "rejected"
         THEN coll' = [coll EXCEPT !.step = "threw"]
         ELSE LET batchCount == coll.batchCount + 1
              IN  coll' = [coll EXCEPT
                             !.size = @ - coll.snapshot,
                             !.docsDeleted = @ + coll.snapshot,
                             !.batchCount = batchCount,
                             !.step = IF coll.snapshot < coll.safeBatchSize THEN "returned"
                                      ELSE IF LoopGoesOn(batchCount) THEN "getDocs"
                                      ELSE "returned",
                             !.warned = coll.snapshot >= coll.safeBatchSize
                                           /\ ~LoopGoesOn(batchCount)]
    /\ UNCHANGED exceptColl

-----------------------------------------------------------------------------
(* projects/[id]/page.tsx: the handlers of the project detail page. The page *)
(* of client c keeps project (<< >> for null, <<p>> for a project), error,   *)
(* updatingPhase and assigningPhase; last records the handler that ran last, *)
(* with the project the page held when it started.                           *)

UpdateStatusError == "Failed to update phase status. Please try again."
AssignError == "Failed to assign user to phase. Please try again."

\* fetchProject found the project: setProject(projectData)
detailFetchProject(c, id) ==
    /\ call[c] = Idle
    /\ projects[id] # NoDoc
    /\ detail' = [detail EXCEPT ![c].project = <<convertToProject(id, projects[id])>>,
                                ![c].last = [op |-> "none"]]
    /\ UNCHANGED <<call, ret, calls, projects, page, cacheVars, batchVars, rulesVars,
                   exceptDetail>>

\* the handler has started its call
Attempt(d, op) == [op |-> op, settled |-> FALSE, failed |-> FALSE, before |-> d.project]
Settled(d, r) == [d.last EXCEPT !.settled = TRUE, !.failed = ~r.ok]

\* the mutant: without the finally block
AfterUpdatePhaseStatusNoFinally(d, r) ==
    IF r.ok
    THEN [d EXCEPT !.project = <<r.project>>, !.updatingPhase = FALSE,
                   !.last = Settled(d, r)]
    ELSE [d EXCEPT !.error = UpdateStatusError, !.last = Settled(d, r)]

\* handleUpdatePhaseStatus after the await: setProject or the catch block,
\* then the finally block
AfterUpdatePhaseStatus(d, r) ==
    IF r.ok
    THEN [d EXCEPT !.project = <<r.project>>, !.updatingPhase = FALSE,
                   !.last = Settled(d, r)]
    ELSE [d EXCEPT !.error = UpdateStatusError, !.updatingPhase = FALSE,
                   !.last = Settled(d, r)]

\* handleAssignUser after the await
AfterAssignUser(d, r) ==
    IF r.ok
    THEN [d EXCEPT !.project = <<r.project>>, !.assigningPhase = Null,
                   !.last = Settled(d, r)]
    ELSE [d EXCEPT !.error = AssignError, !.assigningPhase = Null,
                   !.last = Settled(d, r)]

\* handleUpdatePhaseStatus(phase, status) up to the first await of the call
handleUpdatePhaseStatus(c, phase, status) ==
    /\ detail[c].project # << >>
    /\ ~detail[c].updatingPhase
    /\ updateProjectPhaseStatusGetDoc(c, detail[c].project[1].id, phase, status)
    /\ LET started == [detail[c] EXCEPT !.updatingPhase = TRUE, !.error = Null,
                                        !.last = Attempt(detail[c], "handleUpdatePhaseStatus")]
       IN  detail' = [detail EXCEPT ![c] =
                         IF call'[c] = Idle THEN AfterUpdatePhaseStatus(started, ret')
                                            ELSE started]

handleUpdatePhaseStatusSettles(c) ==
    /\ detail[c].last.op = "handleUpdatePhaseStatus"
    /\ updateProjectPhaseStatusUpdateDoc(c)
    /\ detail' = [detail EXCEPT ![c] = AfterUpdatePhaseStatus(@, ret')]

\* handleAssignUser(phase, userId) up to the first await of the call
handleAssignUser(c, phase, userId) ==
    /\ detail[c].project # << >>
    /\ detail[c].assigningPhase # phase
    /\ assignUserToPhaseGetDoc(c, detail[c].project[1].id, phase, userId)
    /\ LET started == [detail[c] EXCEPT !.assigningPhase = phase, !.error = Null,
                                        !.last = Attempt(detail[c], "handleAssignUser")]
       IN  detail' = [detail EXCEPT ![c] =
                         IF call'[c] = Idle THEN AfterAssignUser(started, ret')
                                            ELSE started]

handleAssignUserSettles(c) ==
    /\ detail[c].last.op = "handleAssignUser"
    /\ assignUserToPhaseUpdateDoc(c)
    /\ detail' = [detail EXCEPT ![c] = AfterAssignUser(@, ret')]

-----------------------------------------------------------------------------
(* components/projects/ProjectCard.tsx *)

\* handleUserSelect(userId, type) on the card of project id, up to the answer of
\* updateProject's getDoc; the user is one of the list getValidatedUsers()
\* returned, the project is the one the card was rendered with
handleUserSelect(c, id, userId, type) ==
    /\ projects[id] # NoDoc
    /\ userId \in ValidatedUsers
    /\ LET project == convertToProject(id, projects[id])
           phaseAssignments == Put(project.phaseAssignments, project.currentPhase, userId)
       IN  updateProjectGetDoc(c, id,
              IF type = "owner" THEN (<<"owner">> :> userId)
              ELSE (<<"phaseAssignments">> :> phaseAssignments))

-----------------------------------------------------------------------------
(* the functions without state: handleError of errorTypes.ts and the overall *)
(* progress of the project detail page, applied to chosen inputs             *)

\* handleError(error) is called; the variable keeps the value passed and the
\* value returned
handleErrorCall(error) ==
    /\ pure' = [fn |-> "handleError", input |-> error, result |-> handleError(error)]
    /\ UNCHANGED exceptPure

\* Math.round(num / den) for num >= 0, den > 0: halves round up
MathRound(num, den) == (2 * num + den) \div (2 * den)

totalPhases(phases) == Cardinality(DOMAIN phases)
completedPhases(phases) == Cardinality({p \in DOMAIN phases : phases[p] = COMPLETED})

\* the mutant: the percentage is truncated
progressTruncated(phases) ==
    IF totalPhases(phases) > 0
    THEN (completedPhases(phases) * 100) \div totalPhases(phases)
    ELSE 0

\* totalPhases > 0 ? Math.round((completedPhases / totalPhases) * 100) : 0
progress(phases) ==
    IF totalPhases(phases) > 0
    THEN MathRound(completedPhases(phases) * 100, totalPhases(phases))
    ELSE 0

\* the detail page is rendered for a project with the given phases map
renderProgress(phases) ==
    /\ pure' = [fn |-> "progress", input |-> phases, result |-> progress(phases)]
    /\ UNCHANGED exceptPure

-----------------------------------------------------------------------------
(* hooks/useAsyncOperation.ts: one hook around an operation that resolves   *)
(* with a value or rejects with a thrown value                              *)

\* useState(false), useState(null), useState(null); pending lists the executes
\* whose operation has not settled, oldest first; data and error are << >> for null
NotStarted ==
    [isLoading |-> FALSE, error |-> << >>, data |-> << >>, pending |-> << >>,
     executes |-> 0, last |-> "none"]

\* execute(...args) up to its await of operation(...args)
execute(arg) ==
    /\ asyncOp.executes < MaxExecutes
    /\ asyncOp' = [asyncOp EXCEPT !.isLoading = TRUE, !.error = << >>,
                                  !.pending = Append(@, arg),
                                  !.executes = @ + 1, !.last = "execute"]
    /\ UNCHANGED exceptAsync

\* the operation of the i-th pending execute resolves with the value it was
\* called for: setData(result), and finally setIsLoading(false)
executeResolves(i) ==
    /\ i \in DOMAIN asyncOp.pending
    /\ asyncOp' = [asyncOp EXCEPT !.data = <<asyncOp.pending[i]>>, !.isLoading = FALSE,
                                  !.pending = RemoveAt(@, i), !.last = "resolved"]
    /\ UNCHANGED exceptAsync

\* the operation of the i-th pending execute rejects: setError(handleError(err)),
\* and finally setIsLoading(false)
executeRejects(i, err) ==
    /\ i \in DOMAIN asyncOp.pending
    /\ asyncOp' = [asyncOp EXCEPT !.error = <<handleError(err)>>, !.isLoading = FALSE,
                                  !.pending = RemoveAt(@, i), !.last = "rejected"]
    /\ UNCHANGED exceptAsync

\* reset()
reset ==
    /\ asyncOp' = [asyncOp EXCEPT !.data = << >>, !.error = << >>, !.isLoading = FALSE,
                                  !.last = "reset"]
    /\ UNCHANGED exceptAsync

-----------------------------------------------------------------------------
(* Initial values of the parts written further down *)

\* no detail page is open
DetailInit ==
    detail = [c \in Clients |->
                 [project |-> << >>, error |-> Null, updatingPhase |-> FALSE,
                  assigningPhase |-> Null, last |-> [op |-> "none"]]]

\* no team page is open
TeamInit == team = [c \in Clients |-> TeamClosed]

\* no user is signed in, no team page is open
SessionInit ==
    /\ authCtx = [c \in Clients |-> SignedOut]
    /\ TeamInit

\* no admin initialization page is open
AdminPageInit ==
    adminPage = [c \in Clients |-> [open |-> FALSE, loading |-> TRUE, hasAdmin |-> FALSE,
                                    error |-> Null, success |-> FALSE]]

\* no page is open, nobody is signed in
UserPagesInit == AdminPageInit /\ SessionInit

\* no profile is stored
UsersInit ==
    /\ users = [u \in Users |-> NoDoc]
    /\ UserPagesInit

CollInit == coll = Collection(0)

PureInit == pure = [fn |-> "none"]

AsyncInit == asyncOp = NotStarted

\* the hooks and pages before anything is mounted
AppInit == HookInit(Null) /\ LoadInit /\ DetailInit /\ UsersInit /\ CollInit /\ PureInit /\ AsyncInit

-----------------------------------------------------------------------------
(* firestore.rules *)

RuleUsers == {"u1", "u2", "u3"}

isSignedIn(request) == request.auth # Null

\* match /{document=**} { allow read, write: if isSignedIn(); }
CatchAllRule(request, resource) == isSignedIn(request)

InList(x, list) == \E i \in DOMAIN list : list[i] = x

\* match /projects/{projectId}: a condition that reads a field of a missing
\* resource is an evaluation error, which does not allow
ProjectsRule(request, resource) ==
    CASE request.method = "get" ->
            /\ isSignedIn(request) /\ resource # NoDoc
            /\ \/ resource.createdBy = request.auth
               \/ resource.owner = request.auth
               \/ InList(request.auth, resource.assignees)
      [] request.method = "create" ->
            isSignedIn(request) /\ request.data.createdBy = request.auth
      [] request.method \in {"update", "delete"} ->
            /\ isSignedIn(request) /\ resource # NoDoc
            /\ \/ resource.owner = request.auth
               \/ resource.createdBy = request.auth

\* the mutant: only the most specific match statement decides
AllowedByProjectsRuleOnly(request, resource) == ProjectsRule(request, resource)

\* a request on projects/{projectId} matches both match statements; it is
\* allowed when an allow of either of them is true
Allowed(request, resource) ==
    CatchAllRule(request, resource) \/ ProjectsRule(request, resource)

\* a request of a client, signed in as auth or not signed in (Null), on the
\* document projects/id; a write of a missing document is a create
Request(auth, method, id, data) ==
    LET resource == projects[id]
        request == [auth |-> auth, method |-> method, data |-> data]
        allowed == Allowed(request, resource)
    IN  /\ (method = "create") <=> (resource = NoDoc)
        /\ access' = [auth |-> auth, method |-> method, id |-> id,
                      resource |-> resource, allowed |-> allowed]
        /\ projects' = [projects EXCEPT ![id] =
                          IF ~allowed THEN @
                          ELSE CASE method = "create" -> data
                                 [] method = "update" -> ApplyUpdate(@, data)
                                 [] method = "delete" -> NoDoc
                                 [] OTHER -> @]
        /\ UNCHANGED <<call, ret, page, cacheVars, batchVars, appVars>>

-----------------------------------------------------------------------------
(* Specifications *)

ProjInit ==
    /\ projects = [id \in ProjectIds |-> NoDoc]
    /\ call = [c \in Clients |-> Idle]
    /\ ret = NoCall
    /\ calls = 0
    /\ page = [c \in Clients |-> NoDoc]
    /\ videos = [id \in ProjectIds |-> << >>]
    /\ lastVideoId = 0
    /\ commitLog = << >>
    /\ access = [method |-> "none"]
    /\ AppInit

\* the phases and users one caller assigns
AssignPhases == {SUBTITLE_TRANSLATION, AUDIO_PRODUCTION}
AssignUsers == {"u1", Null}

\* the cache is left as created
Init == CacheInit /\ ttlMs = MaxTtl /\ ProjInit

\* one caller ("c1") making the calls of projectService.ts one after the other
Next ==
    \/ createProject("c1", [name |-> "n1"], "u1") /\ UNCHANGED calls
    \/ \E id \in ProjectIds : getProject("c1", id) /\ UNCHANGED calls
    \/ \E id \in ProjectIds, phase \in ProjectPhase, status \in PhaseStatus :
          updateProjectPhaseStatusGetDoc("c1", id, phase, status) /\ UNCHANGED calls /\ UNCHANGED detail
    \/ updateProjectPhaseStatusUpdateDoc("c1") /\ UNCHANGED calls /\ UNCHANGED detail
    \/ \E id \in ProjectIds, phase \in AssignPhases, userId \in AssignUsers :
          assignUserToPhaseGetDoc("c1", id, phase, userId) /\ UNCHANGED calls /\ UNCHANGED detail
    \/ assignUserToPhaseUpdateDoc("c1") /\ UNCHANGED calls /\ UNCHANGED detail

Spec == Init /\ [][Next]_vars

\* the phases the clients of a concurrent run act on
ClientPhases == {SUBTITLE_TRANSLATION, AUDIO_PRODUCTION}

\* several clients, each making calls of projectService.ts and using the
\* edit page, their steps interleaved between the awaits
NextClients ==
    \/ \E c \in Clients :
          createProject(c, [name |-> "n1"], UserOf(c)) /\ Budget
    \/ \E c \in Clients, id \in ProjectIds, phase \in ClientPhases, status \in PhaseStatus :
          updateProjectPhaseStatusGetDoc(c, id, phase, status) /\ Budget /\ UNCHANGED detail
    \/ \E c \in Clients : updateProjectPhaseStatusUpdateDoc(c) /\ UNCHANGED calls /\ UNCHANGED detail
    \/ \E c \in Clients, id \in ProjectIds, phase \in ClientPhases, userId \in AssignUsers :
          assignUserToPhaseGetDoc(c, id, phase, userId) /\ Budget /\ UNCHANGED detail
    \/ \E c \in Clients : assignUserToPhaseUpdateDoc(c) /\ UNCHANGED calls /\ UNCHANGED detail
    \/ \E c \in Clients, id \in ProjectIds : EditPageFetchProject(c, id) /\ Budget
    \/ \E c \in Clients, name \in Names :
          handleUpdateProject(c, [name |-> name]) /\ Budget
    \/ \E c \in Clients : updateProjectUpdateDoc(c) /\ UNCHANGED calls

SpecClients == Init /\ [][NextClients]_vars

\* clients talking to the store directly, signed in or not
NextRules ==
    \/ \E auth \in RuleUsers \cup {Null}, id \in ProjectIds, createdBy \in RuleUsers :
          Request(auth, "create", id, NewProject([name |-> "n1"], createdBy))
             /\ UNCHANGED calls
    \/ \E auth \in RuleUsers \cup {Null}, id \in ProjectIds :
          Request(auth, "get", id, EmptyMap) /\ UNCHANGED calls
    \/ \E auth \in RuleUsers \cup {Null}, id \in ProjectIds, owner \in RuleUsers :
          Request(auth, "update", id, (<<"owner">> :> owner)) /\ UNCHANGED calls
    \/ \E auth \in RuleUsers \cup {Null}, id \in ProjectIds :
          Request(auth, "delete", id, EmptyMap) /\ UNCHANGED calls

SpecRules == Init /\ [][NextRules]_vars

\* a project of user u1 that holds n videos, after n calls of createVideo
InitWithVideos(n) ==
    /\ CacheInit /\ ttlMs = MaxTtl
    /\ projects = [id \in ProjectIds |-> NewProject([name |-> "n1"], "u1")]
    /\ call = [c \in Clients |-> Idle]
    /\ ret = NoCall
    /\ calls = 0
    /\ page = [c \in Clients |-> NoDoc]
    /\ videos = [id \in ProjectIds |-> [i \in 1..n |-> i]]
    /\ lastVideoId = n
    /\ commitLog = << >>
    /\ access = [method |-> "none"]
    /\ AppInit

InitBatch == \E n \in 0..MaxVideos : InitWithVideos(n)

\* one caller deleting a project, or its videos, in batches
NextBatch ==
    \/ \E id \in ProjectIds : executeBatch("c1", id)
    \/ executeBatchCommit("c1")
    \/ executeBatchReturn("c1")
    \/ \E id \in ProjectIds : deleteProjectGetDoc("c1", id) /\ UNCHANGED calls
    \/ deleteProjectGetProject("c1")
    \/ deleteProjectGetDocs("c1")

SpecBatch == InitBatch /\ [][NextBatch]_vars

InitDelete == \E n \in 0..MaxRaceVideos : InitWithVideos(n)

\* client c1 deletes the project while client c2 adds videos to it
NextDelete ==
    \/ \E id \in ProjectIds : deleteProjectGetDoc("c1", id) /\ Budget
    \/ deleteProjectGetProject("c1")
    \/ deleteProjectGetDocs("c1")
    \/ executeBatchCommit("c1")
    \/ executeBatchReturn("c1")
    \/ \E id \in ProjectIds : createVideoGetProject("c2", id) /\ Budget
    \/ createVideoAddDoc("c2")

SpecDelete == InitDelete /\ [][NextDelete]_vars

\* useProjects(userId) is mounted over a store with or without a project of u1
InitHook ==
    /\ ttlMs = PROJECTS_CACHE_TTL
    /\ now = 0
    /\ cache = [k \in Keys |-> NoEntry]
    /\ cacheRet = [op |-> "create"]
    /\ lastSet = [k \in Keys |-> NoEntry]
    /\ \E ps \in {[id \in ProjectIds |-> NoDoc],
                  [id \in ProjectIds |-> NewProject([name |-> "n1"], "u1")]} : projects = ps
    /\ call = [c \in Clients |-> Idle]
    /\ ret = NoCall
    /\ calls = 0
    /\ page = [c \in Clients |-> NoDoc]
    /\ videos = [id \in ProjectIds |-> << >>]
    /\ lastVideoId = 0
    /\ commitLog = << >>
    /\ access = [method |-> "none"]
    /\ \E userId \in {"u1", Null} : HookInit(userId)
    /\ LoadInit /\ DetailInit /\ UsersInit /\ CollInit /\ PureInit /\ AsyncInit

\* the effect and the refresh button call fetchProjects while the clock runs
NextHook ==
    \/ fetchProjects(FALSE)
    \/ refreshProjects
    \/ \E i \in 1..MaxFetches : getUserProjectsSettles(i)
    \/ \E dt \in {1, PROJECTS_CACHE_TTL - 1} : HookTick(dt)
    \/ \E userId \in {"u1", "u2", Null} : userIdChanges(userId)

SpecHook == InitHook /\ [][NextHook]_vars

\* the two pages are mounted over a store with or without project p1
InitLoad ==
    /\ CacheInit /\ ttlMs = MaxTtl
    /\ \E ps \in {[id \in ProjectIds |-> NoDoc],
                  [id \in ProjectIds |-> NewProject([name |-> "n1"], "u1")]} : projects = ps
    /\ call = [c \in Clients |-> Idle]
    /\ ret = NoCall
    /\ calls = 0
    /\ page = [c \in Clients |-> NoDoc]
    /\ videos = [id \in ProjectIds |-> << >>]
    /\ lastVideoId = 0
    /\ commitLog = << >>
    /\ access = [method |-> "none"]
    /\ HookInit(Null)
    /\ LoadInit /\ DetailInit /\ UsersInit /\ CollInit /\ PureInit /\ AsyncInit

LoadProgress(pg) ==
    \/ LoadSettles(pg)
    \/ LoadRetries(pg)
    \/ LoadEligibleUsersSettle(pg)

NextLoad ==
    \/ \E pg \in LoadPages, user \in {"u1", Null}, admin \in BOOLEAN :
          LoadEffect(pg, user, admin)
    \/ \E pg \in LoadPages : LoadProgress(pg)
    \/ \E pg \in LoadPages : LoadUnmount(pg)

\* every read settles and every timer fires
SpecLoad ==
    /\ InitLoad /\ [][NextLoad]_vars
    /\ \A pg \in LoadPages : WF_vars(LoadProgress(pg))

\* the arrays updateUserRoles is called with, the roles ticked on the team page
\* and the phase strings getUsersForPhaseAssignment is called with
RoleInputs == {<< >>, <<TRANSLATOR>>, <<USER, ADMIN>>}
TickedInputs == {<< >>, <<ADMIN>>, <<REVIEWER>>, <<TRANSLATOR, AUDIO_PRODUCER>>}
PhaseStrings == ProjectPhase \cup {"review", "toString", "constructor", "__proto__"}

AllIdle == \A c \in Clients : call[c] = Idle

\* the users sign up and change roles, one call at a time
NextUsers ==
    \/ \E c \in Clients : AllIdle /\ signup(c) /\ Budget
          /\ UNCHANGED <<adminPage, sessionVars>>
    \/ \E c \in Clients, roles \in RoleInputs :
          AllIdle /\ updateUserRoles(c, roles) /\ Budget
          /\ UNCHANGED <<adminPage, sessionVars>>
    \/ \E c \in Clients, userId \in Users, ticked \in TickedInputs :
          AllIdle /\ saveRoleChanges(c, userId, ticked) /\ Budget
          /\ UNCHANGED <<adminPage, sessionVars>>
    \/ \E c \in Clients :
          createOrUpdateUserProfileWrite(c) /\ UNCHANGED <<calls, adminPage, sessionVars>>
    \/ \E c \in Clients :
          createOrUpdateUserProfileReread(c) /\ UNCHANGED <<calls, adminPage, sessionVars>>
    \/ \E c \in Clients, userId \in Users :
          AllIdle /\ promoteToAdminGetDoc(c, userId) /\ Budget
          /\ UNCHANGED <<adminPage, sessionVars>>
    \/ \E c \in Clients : promoteToAdminUpdateDoc(c) /\ UNCHANGED <<calls, adminPage, sessionVars>>
    \/ \E c \in Clients : promoteToAdminReread(c) /\ UNCHANGED <<calls, adminPage, sessionVars>>
    \/ \E c \in Clients, phase \in PhaseStrings :
          AllIdle /\ getUsersForPhaseAssignment(c, phase)
          /\ UNCHANGED <<calls, adminPage, sessionVars>>
    \/ AllIdle /\ users[UserOf("c1")] # NoDoc /\ authStateChanged("c1")
    \/ AllIdle /\ listenerGetUserProfile("c1")

SpecUsers == Init /\ [][NextUsers]_vars

\* two users sign up and open the admin initialization page, their steps
\* interleaved between the awaits
NextAdmin ==
    \/ \E c \in Clients : signup(c) /\ UNCHANGED <<calls, adminPage, sessionVars>>
    \/ \E c \in Clients :
          createOrUpdateUserProfileWrite(c) /\ UNCHANGED <<calls, adminPage, sessionVars>>
    \/ \E c \in Clients : checkAdminExists(c)
    \/ \E c \in Clients : handlePromoteToAdmin(c)
    \/ \E c \in Clients : handlePromoteToAdminSettles(c)

SpecAdmin == Init /\ [][NextAdmin]_vars

\* the values handleError is called with: provider errors, generic errors,
\* and values that are no Error
ProviderCodes == {<<"auth", "user-not-found">>, <<"auth", "">>, <<"auth">>, <<"authx", "y">>,
                  <<"permission-denied">>, <<"not-found">>, <<"unavailable">>,
                  <<"storage", "not-found">>, <<"permission-denied", "x">>, << >>}
ErrorInputs ==
    {FirebaseError(code) : code \in ProviderCodes}
        \cup {JsError(m) : m \in {"", "boom", "not found"}}
        \cup {PlainObject(createErrorResponse(FirebaseError(<<"auth", "x">>), "Failed")),
              NonError("string"), NonError("null"), NonError("undefined")}

\* the phases maps the page is rendered with: every map from some of the four
\* phases to a status
PhaseMaps == UNION {[S -> PhaseStatus] : S \in SUBSET ProjectPhase}

NextPure ==
    \/ \E error \in ErrorInputs : handleErrorCall(error)
    \/ \E phases \in PhaseMaps : renderProgress(phases)

SpecPure == Init /\ [][NextPure]_vars

\* the statuses and the assignment the handlers of a run are called with
DetailStatuses == {IN_PROGRESS, COMPLETED}

\* two clients on the detail page of the project of c1, who may delete it
NextDetail ==
    \/ createProject("c1", [name |-> "n1"], "u1") /\ Budget
    \/ \E c \in Clients, id \in ProjectIds : detailFetchProject(c, id)
    \/ \E c \in Clients, status \in DetailStatuses :
          handleUpdatePhaseStatus(c, SUBTITLE_TRANSLATION, status) /\ Budget
    \/ \E c \in Clients : handleUpdatePhaseStatusSettles(c) /\ UNCHANGED calls
    \/ \E c \in Clients, userId \in AssignUsers :
          handleAssignUser(c, SUBTITLE_TRANSLATION, userId) /\ Budget
    \/ \E c \in Clients : handleAssignUserSettles(c) /\ UNCHANGED calls
    \/ \E id \in ProjectIds : Request("u1", "delete", id, EmptyMap) /\ UNCHANGED calls

SpecDetail == Init /\ [][NextDetail]_vars

\* the sizes of the collection and the batch sizes deleteCollection is called
\* with: around the clamp, around 20 rounds, and up to the documented limit
CollSizes == {0, 1, 2, 3, 19, 20, 21, 40, 41, 60, 499, 500, 501, 1000, 9980, 9999, 10000}
BatchSizes == {1, 2, 3, 499, 500, 501, 1000}

InitColl ==
    /\ CacheInit /\ ttlMs = MaxTtl
    /\ projects = [id \in ProjectIds |-> NoDoc]
    /\ call = [c \in Clients |-> Idle]
    /\ ret = NoCall
    /\ calls = 0
    /\ page = [c \in Clients |-> NoDoc]
    /\ videos = [id \in ProjectIds |-> << >>]
    /\ lastVideoId = 0
    /\ commitLog = << >>
    /\ access = [method |-> "none"]
    /\ HookInit(Null) /\ LoadInit /\ DetailInit /\ UsersInit /\ PureInit /\ AsyncInit
    /\ \E n \in CollSizes : coll = Collection(n)

\* one call of deleteCollection on a collection nobody else writes to
NextColl ==
    \/ \E batchSize \in BatchSizes : deleteCollection(batchSize)
    \/ deleteCollectionGetDocs
    \/ deleteCollectionCommit

SpecColl == InitColl /\ [][NextColl]_vars

\* the arguments execute is called with and the values its operation throws
AsyncArgs == {"a1", "a2"}
AsyncErrors == {FirebaseError(<<"permission-denied">>), JsError("boom")}

\* one mounted useAsyncOperation: execute is called while earlier executes are
\* pending, and the pending operations settle in any order
NextAsync ==
    \/ \E arg \in AsyncArgs : execute(arg)
    \/ \E i \in 1..MaxExecutes : executeResolves(i)
    \/ \E i \in 1..MaxExecutes, err \in AsyncErrors : executeRejects(i, err)
    \/ reset

SpecAsync == Init /\ [][NextAsync]_vars

\* u1 has signed up, has promoted itself to admin and has given itself the
\* translator role on the team page; u2 has signed up; u1 has created a project;
\* both have loaded the application since
InitAssign ==
    /\ CacheInit /\ ttlMs = MaxTtl
    /\ \E id \in ProjectIds :
         projects = [i \in ProjectIds |->
                        IF i = id THEN NewProject([name |-> "n1"], "u1") ELSE NoDoc]
    /\ call = [c \in Clients |-> Idle]
    /\ ret = NoCall
    /\ calls = 0
    /\ page = [c \in Clients |-> NoDoc]
    /\ videos = [id \in ProjectIds |-> << >>]
    /\ lastVideoId = 0
    /\ commitLog = << >>
    /\ access = [method |-> "none"]
    /\ HookInit(Null) /\ LoadInit /\ DetailInit /\ CollInit /\ PureInit /\ AsyncInit
    /\ users = [u \in Users |->
                  IF u = "u1"
                  THEN Spread(NewUserProfile(NewUserData),
                              [isValidated |-> TRUE, roles |-> <<USER, ADMIN, TRANSLATOR>>])
                  ELSE NewUserProfile(NewUserData)]
    /\ AdminPageInit /\ TeamInit
    /\ authCtx = [c \in Clients |-> SignedIn(UserOf(c), users[UserOf(c)])]

\* the roles ticked on the team page in a run of assignments
AssignTicked == {<<ADMIN>>, <<ADMIN, TRANSLATOR>>}

\* the users the detail page offers for a phase (the list is taken as fetched
\* at the moment of the selection), and the entry that unassigns
EligibleUsers(phase) == getUsersByRoles(RequiredRoles(phase)).value \cup {Null}

\* phase assignments from the project card (by u2) and the detail page (by
\* u1), and role changes on the team page of the admin u1
NextAssign ==
    \/ \E id \in ProjectIds, userId \in Users, type \in {"owner", "assignee"} :
          handleUserSelect("c2", id, userId, type) /\ Budget
    \/ updateProjectUpdateDoc("c2") /\ UNCHANGED calls
    \/ \E id \in ProjectIds : detailFetchProject("c1", id)
    \/ \E phase \in AssignPhases :
          \E userId \in EligibleUsers(phase) :
             handleAssignUser("c1", phase, userId) /\ Budget
    \/ handleAssignUserSettles("c1") /\ UNCHANGED calls
    \/ \E userId \in Users, ticked \in AssignTicked :
          saveRoleChanges("c1", userId, ticked) /\ Budget /\ UNCHANGED <<adminPage, sessionVars>>
    \/ \E c \in Clients :
          createOrUpdateUserProfileWrite(c) /\ UNCHANGED <<calls, adminPage, sessionVars>>
    \/ \E c \in Clients :
          createOrUpdateUserProfileReread(c) /\ UNCHANGED <<calls, adminPage, sessionVars>>

SpecAssign == InitAssign /\ [][NextAssign]_vars

\* the display names signup is called with: none, or one
SignupNames == {"", "Ann"}

\* a new user signs up in the browser c1: the awaits of signup and of the
\* auth-state listener are answered in any order
NextSignup ==
    \/ \E displayName \in SignupNames : signupCreateUser("c1", displayName)
    \/ signupUpdateProfile("c1")
    \/ signupGetDoc("c1")
    \/ signupSettles("c1")
    \/ listenerGetUserProfile("c1")
    \/ listenerGetDoc("c1")
    \/ listenerSettles("c1")

SpecSignup == Init /\ [][NextSignup]_vars

\* u1 and u2 have signed up and are admins
InitTeam ==
    /\ CacheInit /\ ttlMs = MaxTtl
    /\ projects = [id \in ProjectIds |-> NoDoc]
    /\ call = [c \in Clients |-> Idle]
    /\ ret = NoCall
    /\ calls = 0
    /\ page = [c \in Clients |-> NoDoc]
    /\ videos = [id \in ProjectIds |-> << >>]
    /\ lastVideoId = 0
    /\ commitLog = << >>
    /\ access = [method |-> "none"]
    /\ HookInit(Null) /\ LoadInit /\ DetailInit /\ CollInit /\ PureInit /\ AsyncInit
    /\ users = [u \in Users |->
                  Spread(NewUserProfile(NewUserData),
                         [isValidated |-> TRUE, roles |-> <<USER, ADMIN>>])]
    /\ UserPagesInit

\* the 'mode' parameters the team page is opened with, the roles ticked or
\* unticked on it
ModeParams == {Null, "edit", "view"}
ToggledRoles == {ADMIN, USER}

\* the admin u1 loads the application in the browser c1, uses the team page,
\* logs out
NextTeam ==
    \/ authStateChanged("c1")
    \/ listenerGetUserProfile("c1")
    \/ logout("c1")
    \/ \E modeParam \in ModeParams : teamOpen("c1", modeParam)
    \/ teamToggleMode("c1")
    \/ teamFetchUsers("c1")
    \/ \E userId \in Users, role \in ToggledRoles : toggleRoleCheckbox("c1", userId, role)
    \/ \E userId \in Users : teamSaveRoleChanges("c1", userId) /\ Budget
    \/ \E userId \in Users : toggleUserValidation("c1", userId) /\ Budget
    \/ teamCallSettles("c1") /\ UNCHANGED calls

SpecTeam == InitTeam /\ [][NextTeam]_vars

CacheNext ==
    \/ Tick
    \/ \E key \in Keys : CacheGet(key)
    \/ \E key \in Keys, data \in Values : CacheSet(key, data)
    \/ \E key \in Keys : CacheRemove(key)
    \/ CacheClear
    \/ \E key \in Keys : CacheHas(key)

InitCache == CacheInit /\ ProjInit

SpecCache == InitCache /\ [][CacheNext]_vars

-----------------------------------------------------------------------------
(* C1 *)

\* the most recent set(key, v) was neither removed nor cleared and is at most ttl old
Live(key) == lastSet[key] # NoEntry /\ now - lastSet[key].timestamp <= ttlMs

\* C1: get(key) returns the value of the most recent set(key, v) when that
\* entry was not removed or cleared and now - timestamp <= ttl (inclusive),
\* and otherwise returns null and leaves no entry for key; has(key) returns
\* true in exactly the cases where get(key) returns the stored value, and
\* otherwise returns false and leaves no entry for key.
C1_GetHasFollowTtl ==
    /\ cacheRet.op = "get" =>
          IF Live(cacheRet.key)
          THEN cacheRet.result = lastSet[cacheRet.key].data
          ELSE cacheRet.result = Null /\ cache[cacheRet.key] = NoEntry
    /\ cacheRet.op = "has" =>
          IF Live(cacheRet.key)
          THEN cacheRet.result = TRUE
          ELSE cacheRet.result = FALSE /\ cache[cacheRet.key] = NoEntry

\* a get exactly at the boundary now - timestamp = ttl (ttl > 0) returned the value
C1_WitnessBoundaryHit ==
    /\ cacheRet.op = "get"
    /\ ttlMs > 0
    /\ lastSet[cacheRet.key] # NoEntry
    /\ now - lastSet[cacheRet.key].timestamp = ttlMs
    /\ cacheRet.result = lastSet[cacheRet.key].data

-----------------------------------------------------------------------------
(* C2 *)

AllNotStarted(phases) ==
    /\ DOMAIN phases = ProjectPhase
    /\ \A phase \in ProjectPhase : phases[phase] = NOT_STARTED

FreshProject(project, userId) ==
    /\ AllNotStarted(project.phases)
    /\ project.currentPhase = SUBTITLE_TRANSLATION
    /\ project.currentPhase = PHASE_SEQUENCE[1]
    /\ project.owner = userId
    /\ project.createdBy = userId
    /\ DOMAIN project.phaseAssignments = {}

\* C2: when the store write succeeds, createProject(data, userId) returns and
\* stores a project whose phases map has exactly the four phases, each
\* not_started, whose currentPhase is subtitle_translation, the first phase
\* of the sequence, whose owner and createdBy are userId and whose
\* phaseAssignments map is empty.
C2_CreateProjectDefaults ==
    (ret.op = "createProject" /\ ret.ok) =>
        /\ FreshProject(ret.project, ret.userId)
        /\ projects[ret.id] # NoDoc
        /\ FreshProject(projects[ret.id], ret.userId)

\* createProject has returned a project and the store holds it
C2_WitnessCreated ==
    /\ ret.op = "createProject" /\ ret.ok
    /\ projects[ret.id] # NoDoc
    /\ ret.project.id = ret.id

-----------------------------------------------------------------------------
(* C3 *)

\* C3: in every reachable store state, whatever createProject,
\* updateProject, updateProjectPhaseStatus and assignUserToPhase calls the
\* clients have made, the phases map of every existing project has an entry
\* for each of the four phases, each being not_started, in_progress or
\* completed.
C3_PhasesComplete ==
    \A id \in ProjectIds :
        projects[id] # NoDoc =>
            /\ DOMAIN projects[id].phases = ProjectPhase
            /\ \A phase \in ProjectPhase : projects[id].phases[phase] \in PhaseStatus

\* the edit page has written back the phases it had loaded, over a status
\* that another call had stored in the meantime
C3_WitnessStalePhasesWritten ==
    /\ ret.op = "updateProject" /\ ret.ok
    /\ ret.before.phases # projects[ret.id].phases

-----------------------------------------------------------------------------
(* C4 *)

\* C4: updateProjectPhaseStatus(id, P, in_progress) on an existing project
\* sets phases[P] to in_progress and currentPhase to P and leaves the status
\* of every other phase as it was before the call, in the stored document
\* and in the returned project.
C4_InProgressSetsCurrentPhase ==
    (ret.op = "updateProjectPhaseStatus" /\ ret.ok /\ ret.status = IN_PROGRESS) =>
        LET stored == projects[ret.id]
            returned == ret.project
        IN  /\ stored.phases[ret.phase] = IN_PROGRESS
            /\ stored.currentPhase = ret.phase
            /\ returned.phases[ret.phase] = IN_PROGRESS
            /\ returned.currentPhase = ret.phase
            /\ \A other \in ProjectPhase \ {ret.phase} :
                  /\ stored.phases[other] = ret.before.phases[other]
                  /\ returned.phases[other] = ret.before.phases[other]

\* a phase other than the current one was put in progress while another
\* phase was already completed
C4_WitnessInProgress ==
    /\ ret.op = "updateProjectPhaseStatus" /\ ret.ok /\ ret.status = IN_PROGRESS
    /\ ret.before.currentPhase # ret.phase
    /\ ret.before.phases[ret.phase] # IN_PROGRESS
    /\ \E other \in ProjectPhase \ {ret.phase} : projects[ret.id].phases[other] = COMPLETED

-----------------------------------------------------------------------------
(* C5 *)

\* C5: for an existing project updateProjectPhaseStatus(id, P, s) is accepted
\* for every phase P and status s, whatever the statuses of P and of the
\* other phases are: a call that has read the project can always complete
\* with phases[P] = s stored and nothing else in phases changed, and a call
\* that returned a project has stored and returned phases[P] = s.
C5_AnyStatusAccepted ==
    /\ \A c \in Clients :
          call[c].op = "updateProjectPhaseStatus" =>
             ENABLED ( /\ updateProjectPhaseStatusUpdateDoc(c)
                       /\ ret'.ok
                       /\ projects'[call[c].id].phases =
                             Put(projects[call[c].id].phases, call[c].phase, call[c].status) )
    /\ (ret.op = "updateProjectPhaseStatus" /\ ret.ok) =>
          /\ projects[ret.id].phases[ret.phase] = ret.status
          /\ ret.project.phases[ret.phase] = ret.status

\* subtitle_translation was set back from completed to not_started while the
\* last phase, audio_review, is completed
C5_WitnessBackwardsAndOutOfOrder ==
    /\ ret.op = "updateProjectPhaseStatus" /\ ret.ok
    /\ ret.phase = SUBTITLE_TRANSLATION
    /\ ret.status = NOT_STARTED
    /\ ret.before.phases[SUBTITLE_TRANSLATION] = COMPLETED
    /\ projects[ret.id].phases[AUDIO_REVIEW] = COMPLETED
    /\ projects[ret.id].phases[SUBTITLE_TRANSLATION] = NOT_STARTED

-----------------------------------------------------------------------------
(* C6 *)

\* C6: after assignUserToPhase(id, P, u1) followed by
\* assignUserToPhase(id, P, null) the project's phase-assignment map has no
\* entry for P and the entries of the other phases are as before. (The
\* project read by the second call holds P -> u1: the first call was made.)
C6_UnassignRemovesEntry ==
    ( /\ ret.op = "assignUserToPhase" /\ ret.ok /\ ret.userId = Null
      /\ ret.phase \in DOMAIN ret.before.phaseAssignments
      /\ ret.before.phaseAssignments[ret.phase] = "u1" ) =>
        LET stored == projects[ret.id].phaseAssignments
            before == ret.before.phaseAssignments
        IN  /\ ret.phase \notin DOMAIN stored
            /\ DOMAIN stored \ {ret.phase} = DOMAIN before \ {ret.phase}
            /\ \A other \in DOMAIN stored \ {ret.phase} : stored[other] = before[other]

-----------------------------------------------------------------------------
(* C7 *)

Participant(uid, resource) ==
    uid = resource.createdBy \/ uid = resource.owner \/ InList(uid, resource.assignees)

\* C7 as stated: under the deployed rules a signed-in user who is neither
\* the creator, the owner nor an assignee of a project cannot read it, and a
\* signed-in user who is neither its creator nor its owner cannot update or
\* delete it.
C7_OnlyParticipantsAllowed ==
    /\ ( /\ access.method = "get" /\ access.auth # Null
         /\ ~Participant(access.auth, access.resource) ) => ~access.allowed
    /\ ( /\ access.method \in {"update", "delete"} /\ access.auth # Null
         /\ access.auth # access.resource.createdBy
         /\ access.auth # access.resource.owner ) => ~access.allowed

\* C7 as amended: under the deployed rules a read, update or delete of a
\* project is allowed exactly when the user is signed in, whoever created,
\* owns or is assigned to the project; only a user who is not signed in
\* cannot read, update or delete it.
C7_SignedInAllowed ==
    access.method \in {"get", "update", "delete"} =>
        (access.allowed <=> access.auth # Null)

\* a signed-in user who is neither creator, owner nor assignee deleted a project
C7_WitnessStrangerDeletes ==
    /\ access.method = "delete" /\ access.auth # Null
    /\ ~Participant(access.auth, access.resource)
    /\ access.allowed
    /\ projects[access.id] = NoDoc

\* the ids of the video records stored under a project
StoredVideos(id) == {videos[id][i] : i \in DOMAIN videos[id]}

\* does the document a reference names exist, stored being StoredVideos
Exists(ref, stored) ==
    IF Len(ref) = 2 THEN projects[ref[2]] # NoDoc ELSE ref[3] \in stored

\* C8 (as stated): once deleteProject(id) has returned successfully, the
\* project document and every video record under the project are gone,
\* whatever createVideo calls another client made while the deletion ran.
C8_DeleteLeavesNothing ==
    (ret.op = "deleteProject" /\ ret.ok) =>
        /\ projects[ret.id] = NoDoc
        /\ videos[ret.id] = << >>

\* C9: when the commit of batch k fails the caller gets the error, the
\* batches before k stay applied, batch k and the batches after it are never
\* applied, and no commit follows the failed one; a failed deleteProject can
\* so leave the project document deleted and videos in the store.
C9_FailedBatchNoRollback ==
    /\ \A i \in DOMAIN commitLog :
          commitLog[i].outcome # Ok => i = Len(commitLog)
    /\ "failedChunk" \in DOMAIN ret =>
          /\ ~ret.ok
          /\ call[ret.client] = Idle
          /\ Len(commitLog) = ret.failedChunk
          /\ ret.error.code = mapFirebaseErrorCode(commitLog[ret.failedChunk].outcome)
          /\ LET stored == StoredVideos(ret.id)
             IN  \A j \in DOMAIN ret.chunks : \A i \in DOMAIN ret.chunks[j] :
                    Exists(ret.chunks[j][i].ref, stored) <=> j >= ret.failedChunk

\* C9 witness: deleteProject failed at its second batch; the project document
\* is deleted and videos of the project are still stored
C9_WitnessProjectGoneVideosLeft ==
    /\ ret.op = "deleteProject" /\ ~ret.ok
    /\ "failedChunk" \in DOMAIN ret /\ ret.failedChunk = 2
    /\ projects[ret.id] = NoDoc
    /\ videos[ret.id] # << >>

CeilDiv(n, d) == (n + d - 1) \div d

\* the chunks are the operations, in order, cut every MAX_BATCH_SIZE
InBatches(operations, chunks) ==
    /\ Len(chunks) = CeilDiv(Len(operations), 500)
    /\ \A j \in DOMAIN chunks :
          /\ Len(chunks[j]) \in 1..500
          /\ j < Len(chunks) => Len(chunks[j]) = 500
          /\ \A i \in DOMAIN chunks[j] :
                /\ (j - 1) * 500 + i \in DOMAIN operations
                /\ chunks[j][i] = operations[(j - 1) * 500 + i]
    /\ chunks # << >> =>
          Len(operations) = (Len(chunks) - 1) * 500 + Len(chunks[Len(chunks)])

\* C10: executeBatch cuts its n operations, in order, into ceil(n/500) batches
\* of at most 500, each operation in exactly one batch; the batches are
\* committed one after another, and with n = 0 there is no batch and no commit.
C10_BatchesOfAtMost500 ==
    /\ \A c \in Clients : call[c].op = "executeBatch" =>
          /\ InBatches(call[c].operations, call[c].chunks)
          /\ call[c].next = Len(commitLog) + 1
    /\ "chunks" \in DOMAIN ret =>
          /\ InBatches(ret.operations, ret.chunks)
          /\ Len(ret.operations) = 0 => ret.chunks = << >> /\ commitLog = << >>
          /\ ret.ok => Len(commitLog) = Len(ret.chunks)
    /\ \A i \in DOMAIN commitLog : commitLog[i].chunk = i

\* C10 witness: executeBatch returned after 501 operations went out in two
\* batches, the second holding the one operation past the first 500
C10_WitnessTwoBatches ==
    /\ ret.op = "executeBatch" /\ ret.ok
    /\ Len(ret.operations) = 501
    /\ Len(ret.chunks) = 2 /\ Len(ret.chunks[2]) = 1
    /\ Len(commitLog) = 2

\* C11 (as stated): a fetch of useProjects that is not forced and finds a live
\* entry of the user in projectsCache (a successful fetch at most the ttl of
\* 5 minutes ago) issues no getUserProjects request.
C11_NoRequestWithinTtl ==
    (hook.last.op = "fetchProjects" /\ ~hook.last.forceRefresh /\ hook.last.live)
        => ~hook.last.requested

\* the run of a page's loading effect keeps to three attempts 500 ms apart
ThreeAttempts(l) ==
    /\ l.requests <= 3
    /\ l.failures <= 3
    /\ l.step = "getting" => l.requests = l.failures + 1 /\ l.failures <= 2
    /\ l.step = "waiting" => l.requests = l.failures /\ l.failures \in 1..2
    /\ l.waited = 500 * (IF l.step = "waiting" THEN l.failures - 1
                         ELSE IF l.failures = 3 THEN 2 ELSE l.failures)
    /\ (l.step = "done" /\ l.failures = 3 /\ l.mounted) =>
          /\ l.requests = 3
          /\ l.error # Null
          /\ ~l.loading
    /\ (l.step \in {"done", "eligibleUsers"} /\ l.failures < 3 /\ l.mounted) =>
          l.requests = l.failures + 1 /\ l.data # << >> /\ l.error = Null

C13_RolesContainUser ==
    \A u \in Users : users[u] # NoDoc => Includes(users[u].roles, USER)

Admins == {u \in Users : users[u] # NoDoc /\ Includes(users[u].roles, ADMIN)}

\* C14 (as stated): starting without admins, at most one user becomes admin
\* through the admin initialization page, also with several users on the page.
C14_AtMostOneAdmin == Cardinality(Admins) <= 1

\* C15 (as stated): when promoteToAdmin(u) has returned successfully, the
\* stored roles of u hold admin and every role u held before, and u is
\* validated, whatever u's roles and validation flag were before.
C15_PromotedIsValidatedAdmin ==
    (ret.op = "promoteToAdmin" /\ ret.ok) =>
        /\ Includes(users[ret.uid].roles, ADMIN)
        /\ \A i \in DOMAIN ret.before.roles : Includes(users[ret.uid].roles, ret.before.roles[i])
        /\ users[ret.uid].isValidated

\* the users of the list that hold a role
Holding(role) == {u \in Users : users[u] # NoDoc /\ Includes(users[u].roles, role)}

\* C16 (as stated): getUsersForPhaseAssignment(phase) returns the users holding
\* the role of the phase, and for every other phase string the admins.
C16_EligibleByPhaseRole ==
    ret.op = "getUsersForPhaseAssignment" =>
        /\ ret.ok
        /\ ret.value =
              CASE ret.phase = "subtitle_translation" -> Holding("translator")
                [] ret.phase = "translation_proofreading" -> Holding("reviewer")
                [] ret.phase = "audio_production" -> Holding("audio_producer")
                [] ret.phase = "audio_review" -> Holding("reviewer")
                [] OTHER -> Holding("admin")

\* C17: handleError maps a provider error to auth/error when its code starts
\* with 'auth/', to permission-denied and not-found for these two codes, to
\* unknown for any other code; a generic Error to unknown with its own message;
\* any other value to unknown with the default message. The code returned is
\* one of the seven codes, and the value passed is returned untouched as
\* originalError.
C17_HandleErrorMapping ==
    pure.fn = "handleError" =>
        LET e == pure.input
            r == pure.result
        IN  /\ r.code \in ErrorCode
            /\ r.originalError = e
            /\ e.type = "FirebaseError" =>
                  r.code = CASE Len(e.code) > 1 /\ SubSeq(e.code, 1, 1) = <<"auth">> -> "auth/error"
                             [] e.code = <<"permission-denied">> -> "permission-denied"
                             [] e.code = <<"not-found">> -> "not-found"
                             [] OTHER -> "unknown"
            /\ e.type = "Error" => r.code = "unknown" /\ r.message = e.message
            /\ e.type \notin {"FirebaseError", "Error"} =>
                  r.code = "unknown" /\ r.message = "An unexpected error occurred"

\* an object with a provider's code that is no Error was normalized
C17_WitnessNonErrorWithCode ==
    /\ pure.fn = "handleError"
    /\ pure.input.type = "object"
    /\ pure.input.value.code = "auth/error"
    /\ pure.result.code = "unknown"
    /\ pure.result.message = "An unexpected error occurred"

\* C18: the progress shown is round(100 * completed / total), halves up: 0 for
\* an empty phases map, 100 exactly when all phases of a non-empty map are
\* completed, 25 * completed for a map of four phases; only completed phases
\* count.
C18_ProgressIsRoundedShare ==
    pure.fn = "progress" =>
        LET phases == pure.input
            r == pure.result
            total == Cardinality(DOMAIN phases)
            completed == Cardinality(DOMAIN phases) -
                           Cardinality({p \in DOMAIN phases :
                                           phases[p] \in {NOT_STARTED, IN_PROGRESS}})
        IN  /\ r \in 0..100
            /\ total = 0 => r = 0
            /\ total > 0 =>
                  /\ 2 * r * total - total <= 200 * completed
                  /\ 200 * completed < 2 * r * total + total
                  /\ (r = 100) <=> (completed = total)
            /\ total = 4 => r = 25 * completed

\* two of three phases completed: 66.67 is shown as 67
C18_WitnessTwoOfThree ==
    /\ pure.fn = "progress"
    /\ Cardinality(DOMAIN pure.input) = 3
    /\ Cardinality({p \in DOMAIN pure.input : pure.input[p] = COMPLETED}) = 2
    /\ pure.result = 67

C20_ReturnsWithEmptyCollection ==
    (coll.step = "returned" /\ coll.initial <= 10000 /\ coll.batchSize >= 1) =>
        /\ coll.batchCount <= 20
        /\ coll.size = 0

\* the call of a client that writes currentPhase when it completes: a status
\* update to in_progress, or an updateProject whose data carries currentPhase
WritesCurrentPhase(c) ==
    \/ call[c].op = "updateProjectPhaseStatus" /\ call[c].status = IN_PROGRESS
    \/ call[c].op = "updateProject" /\ <<"currentPhase">> \in DOMAIN call[c].projectData

\* C21: a status update to not_started or completed returns and stores the
\* currentPhase it found; the stored currentPhase of a project changes only in
\* a step that completes a status update to in_progress or an updateProject
\* carrying currentPhase.
C21_CurrentPhaseOnlyByInProgress ==
    /\ [](ret.op = "updateProjectPhaseStatus" /\ ret.ok /\ ret.status # IN_PROGRESS
            => ret.project.currentPhase = ret.before.currentPhase)
    /\ [][\A id \in ProjectIds :
            (projects[id] # NoDoc /\ projects'[id] # NoDoc
                /\ projects'[id].currentPhase # projects[id].currentPhase)
            => \E c \in Clients : WritesCurrentPhase(c) /\ call[c].id = id /\ call'[c] = Idle]_vars

\* currentPhase names a phase that is completed or not started while another
\* phase is in progress
C21_WitnessCurrentPhaseNotInProgress ==
    \E id \in ProjectIds :
        /\ projects[id] # NoDoc
        /\ projects[id].phases[projects[id].currentPhase] \in {COMPLETED, NOT_STARTED}
        /\ \E p \in ProjectPhase : projects[id].phases[p] = IN_PROGRESS
        /\ ret.op = "updateProjectPhaseStatus" /\ ret.ok /\ ret.status = COMPLETED

\* C22 (as stated): the step in which the edit form's save is written leaves
\* the stored phase statuses and the stored currentPhase of the project as
\* they were right before it.
C22_SaveKeepsPhases ==
    [][\A c \in Clients :
          (call[c].op = "updateProject" /\ call'[c] = Idle
              /\ projects[call[c].id] # NoDoc /\ projects'[call[c].id] # NoDoc)
          => /\ projects'[call[c].id].phases = projects[call[c].id].phases
             /\ projects'[call[c].id].currentPhase = projects[call[c].id].currentPhase]_vars

\* C23 (as stated): with one caller, the project returned by
\* updateProjectPhaseStatus and by assignUserToPhase is the project getProject
\* returns right afterwards, timestamps apart.
C23_ReturnedIsStored ==
    (ret.op \in {"updateProjectPhaseStatus", "assignUserToPhase"} /\ ret.ok) =>
        ret.project = convertToProject(ret.id, projects[ret.id])

\* a call has just failed on the existence check of the project document
MissingProject ==
    /\ ret.op \in {"getProject", "updateProject", "updateProjectPhaseStatus",
                   "assignUserToPhase", "deleteProject"}
    /\ ~ret.ok
    /\ ret.error.message = "not found"

\* C24 (as stated): a call of getProject, updateProject,
\* updateProjectPhaseStatus, assignUserToPhase or deleteProject for a project
\* that does not exist fails with an error of kind not-found, and the step in
\* which it fails writes nothing to the store.
C24_MissingProjectIsNotFound ==
    /\ [](MissingProject => ret.error.code = "not-found")
    /\ [][MissingProject' /\ ret' # ret => projects' = projects /\ videos' = videos]_vars

\* C25 (as stated): when the provider has rejected the project-list read of a
\* fetch with permission-denied, the error state of useProjects has the kind
\* permission-denied.
C25_KindSurvivesHook ==
    (hook.last.op = "settled" /\ hook.last.kind = "foreground"
        /\ hook.last.outcome = <<"permission-denied">>)
    => hook.error.code = "permission-denied"

\* C26 (as stated): the list held by useProjects(userId) holds only projects
\* fetched for the current userId, and none when userId is null.
C26_ProjectsOfCurrentUser ==
    hook.projects # << >> =>
        /\ hook.userId # Null
        /\ \A p \in hook.projects[1] : p.createdBy = hook.userId

\* C27: useAsyncOperation shows isLoading as long as an execute is in flight:
\* when one of two overlapping executes has settled and the operation of the
\* other has not, isLoading is still true
C27_LoadingWhilePending ==
    (asyncOp.last \in {"resolved", "rejected"} /\ asyncOp.pending # << >>)
        => asyncOp.isLoading

\* the user assigned to a phase of a stored project, Null when there is none
Assignee(id, phase) ==
    IF phase \in DOMAIN projects[id].phaseAssignments
    THEN projects[id].phaseAssignments[phase] ELSE Null

\* C28: whoever is assigned to a phase of a project holds the role eligible for
\* that phase
C28_AssigneeHoldsEligibleRole ==
    \A id \in ProjectIds, phase \in ProjectPhase :
        (projects[id] # NoDoc /\ Assignee(id, phase) # Null) =>
            LET u == Assignee(id, phase)
            IN  /\ users[u] # NoDoc
                /\ \E i \in DOMAIN users[u].roles :
                       Includes(RequiredRoles(phase).items, users[u].roles[i])

\* C29: once signup with a display name has completed successfully, the stored
\* profile of the new user has that display name, is not validated and has the
\* roles [user], however the writes of the auth-state listener fell
C29_SignupProfileStored ==
    \A c \in Clients :
        (authCtx[c].signup.step = "done" /\ authCtx[c].signup.displayName # "") =>
            LET stored == users[authCtx[c].user[1].uid]
            IN  /\ stored # NoDoc
                /\ stored.displayName = authCtx[c].signup.displayName
                /\ stored.isValidated = FALSE
                /\ stored.roles = <<USER>>

=============================================================================
